---- MODULE Spec2Model ----
(***************************************************************************)
(* Model of the gallery server (src/server.py): the image Index and its    *)
(* reconciliation with the filesystem, the playlist builder, the session   *)
(* store with its durable mirror, the content cache and the preloader.     *)
(*                                                                         *)
(* Strings are sequences of one-character strings, so that the string      *)
(* functions of the source (normalisation, LIKE matching, path resolution) *)
(* are computed character by character, as the source computes them.       *)
(***************************************************************************)
EXTENDS Integers, Sequences, FiniteSets, TLC

VARIABLES
    allowParent,    \* the GALLERY_ALLOW_PARENT_DIR_ACCESS flag of the environment
    fs,             \* the filesystem: absolute path of a file -> mtime (0: no file)
    index,          \* table images: path -> [mtime, width, height, is_landscape]
    durable,        \* table playlists: client_ip -> playlist
    user_sessions,  \* LRUCache of UserSession, least recently used first
    image_cache,    \* lru_cache of get_image_content, least recently used first
    synced,         \* external_synced_paths_this_boot
    sync_runs,      \* how often sync_external_path_to_db ran for a path since the start
    tasks,          \* background tasks scheduled and not yet run
    resp,           \* the response of the last request
    scanlog,        \* what the last scan_library_task pass did
    scan,           \* the scan_library_task pass running in a worker thread
    build           \* the get_playlist request in progress on the event loop

vars == <<allowParent, fs, index, durable, user_sessions, image_cache, synced, sync_runs,
          tasks, resp, scanlog, scan, build>>

-----------------------------------------------------------------------------
(* Bounds of the model *)

MaxMtime == 2       \* modification times are 1..MaxMtime
MaxTasks == 1       \* at most this many background tasks wait at a time
MaxRestore == 2     \* a restore request submits at most this many candidates
MaxSyncRuns == 2    \* runs of the external sync for one path are counted up to this

(* The sizes the program fixes, scaled to the model's universe *)

SESSIONS_MAXSIZE == 2       \* LRUCache(maxsize=600)
IMAGE_CACHE_MAXSIZE == 2    \* lru_cache(maxsize=2000)
PRELOAD_WINDOW == 1         \* preload_window = 100
PRELOAD_EVERY == 3          \* request_count % 90 == 1

-----------------------------------------------------------------------------
(* Strings *)

S_dot == <<".">>
S_dotdot == <<".", ".">>
S_a == <<"a">>
S_ab == <<"a", "b">>
S_a_us == <<"a", "_">>
S_pct == <<"%">>
S_e == <<"e">>
S_ext == <<".", ".", "/", "e">>
S_EXT == <<".", ".", "/", "E">>
S_a1 == <<"a", "/", "1">>
S_ab2 == <<"a", "b", "/", "2">>
S_ext1 == <<".", ".", "/", "e", "/", "1">>
S_atxt == <<"a", "/", "b">>
S_a2 == <<"a", "/", "2">>
S_a10 == <<"a", "/", "1", "0">>
S_B1 == <<"B", "/", "1">>
S_ac == <<"a", "/", "c">>
S_ext2 == <<".", ".", "/", "e", "/", "2">>
S_h == <<".", "h">>
S_h1 == <<".", "h", "/", "1">>
S_ah1 == <<"a", "/", ".", "h", "/", "1">>
S_dot_a == <<".", "/", "a">>

Lower(c) == IF c = "A" THEN "a" ELSE IF c = "B" THEN "b" ELSE IF c = "E" THEN "e" ELSE c

\* the code point of a character
Ord(c) ==
    CASE c = "%" -> 37 [] c = "." -> 46 [] c = "/" -> 47
      [] c = "0" -> 48 [] c = "1" -> 49 [] c = "2" -> 50
      [] c = "A" -> 65 [] c = "B" -> 66 [] c = "E" -> 69 [] c = "\\" -> 92 [] c = "_" -> 95
      [] c = "a" -> 97 [] c = "b" -> 98 [] c = "e" -> 101
      [] OTHER -> 0

IsDigit(c) == c \in {"0", "1", "2"}

Range(list) == { list[i] : i \in 1..Len(list) }

Max(a, b) == IF a >= b THEN a ELSE b
Min(a, b) == IF a <= b THEN a ELSE b

StartsWith(s, p) == Len(s) >= Len(p) /\ SubSeq(s, 1, Len(p)) = p

RECURSIVE SplitAt(_, _, _)
SplitAt(s, i, cur) ==
    IF i > Len(s) THEN <<cur>>
    ELSE IF s[i] = "/" THEN <<cur>> \o SplitAt(s, i + 1, <<>>)
    ELSE SplitAt(s, i + 1, Append(cur, s[i]))

\* str.split('/')
Split(s) == SplitAt(s, 1, <<>>)

RECURSIVE Join(_)
\* '/'.join(segs)
Join(segs) ==
    IF segs = <<>> THEN <<>>
    ELSE IF Len(segs) = 1 THEN segs[1]
    ELSE segs[1] \o <<"/">> \o Join(Tail(segs))

\* str.replace(x, y) for single characters
ReplaceChar(s, x, y) == [i \in 1..Len(s) |-> IF s[i] = x THEN y ELSE s[i]]

RECURSIVE StripLeft(_)
StripLeft(s) == IF s /= <<>> /\ s[1] = "/" THEN StripLeft(Tail(s)) ELSE s

RECURSIVE StripRight(_)
StripRight(s) ==
    IF s /= <<>> /\ s[Len(s)] = "/" THEN StripRight(SubSeq(s, 1, Len(s) - 1)) ELSE s

RECURSIVE ReplaceDotSeg(_)
\* str.replace('/./', '/'): non-overlapping occurrences, left to right
ReplaceDotSeg(s) ==
    IF Len(s) < 3 THEN s
    ELSE IF SubSeq(s, 1, 3) = <<"/", ".", "/">>
         THEN <<"/">> \o ReplaceDotSeg(SubSeq(s, 4, Len(s)))
         ELSE <<s[1]>> \o ReplaceDotSeg(Tail(s))

RECURSIVE LikeFrom(_, _, _, _, _)
LikeFrom(pat, i, s, j, esc) ==
    IF i > Len(pat) THEN j > Len(s)
    ELSE IF esc /= "" /\ pat[i] = esc /\ i < Len(pat)
         THEN /\ j <= Len(s)
              /\ Lower(s[j]) = Lower(pat[i + 1])
              /\ LikeFrom(pat, i + 2, s, j + 1, esc)
    ELSE IF pat[i] = "%"
         THEN \E k \in j..(Len(s) + 1) : LikeFrom(pat, i + 1, s, k, esc)
    ELSE IF pat[i] = "_"
         THEN j <= Len(s) /\ LikeFrom(pat, i + 1, s, j + 1, esc)
    ELSE /\ j <= Len(s)
         /\ Lower(s[j]) = Lower(pat[i])
         /\ LikeFrom(pat, i + 1, s, j + 1, esc)

\* SQLite's  s LIKE pat [ESCAPE esc]: % any run, _ any one character, ASCII
\* letters compared without case; esc = "" when no ESCAPE clause is given
Like(s, pat, esc) == LikeFrom(pat, 1, s, 1, esc)

-----------------------------------------------------------------------------
(* Paths *)

\* ROOT_DIR, as the list of its components: /w/r
ROOT_DIR == << <<"w">>, <<"r">> >>

RECURSIVE NormSegs(_, _)
NormSegs(segs, acc) ==
    IF segs = <<>> THEN acc
    ELSE LET h == Head(segs) IN
         IF h = <<>> \/ h = S_dot THEN NormSegs(Tail(segs), acc)
         ELSE IF h = S_dotdot
              THEN NormSegs(Tail(segs),
                            IF acc = <<>> THEN acc ELSE SubSeq(acc, 1, Len(acc) - 1))
              ELSE NormSegs(Tail(segs), Append(acc, h))

\* os.path.join(ROOT_DIR, path), as a list of components, not normalised
JoinRoot(path) ==
    IF path /= <<>> /\ path[1] = "/" THEN Split(path) ELSE ROOT_DIR \o Split(path)

\* os.path.abspath(os.path.join(ROOT_DIR, path))
AbsPath(path) == NormSegs(JoinRoot(path), <<>>)

\* os.path.commonpath([ROOT_DIR, full]) == ROOT_DIR
UnderRoot(full) == StartsWith(full, ROOT_DIR)

RECURSIVE CommonLen(_, _)
CommonLen(a, b) ==
    IF a = <<>> \/ b = <<>> \/ Head(a) /= Head(b) THEN 0
    ELSE 1 + CommonLen(Tail(a), Tail(b))

\* os.path.relpath(full, ROOT_DIR).replace('\\', '/')
RelPath(full) ==
    LET k == CommonLen(full, ROOT_DIR)
        segs == [i \in 1..(Len(ROOT_DIR) - k) |-> S_dotdot] \o SubSeq(full, k + 1, Len(full))
    IN  IF segs = <<>> THEN S_dot ELSE Join(segs)

is_path_in_root_dir(path) ==
    IF path = <<>> \/ path = S_dot THEN TRUE ELSE UnderRoot(AbsPath(path))

is_db_path_under_root(db_path) == UnderRoot(AbsPath(db_path))

normalize_rel_path(path) ==
    ReplaceDotSeg(StripRight(StripLeft(ReplaceChar(path, "\\", "/"))))

RECURSIVE escape_like_pattern(_)
escape_like_pattern(value) ==
    IF value = <<>> THEN <<>>
    ELSE IF Head(value) \in {"\\", "%", "_"}
         THEN <<"\\", Head(value)>> \o escape_like_pattern(Tail(value))
         ELSE <<Head(value)>> \o escape_like_pattern(Tail(value))

resolve_relative_file_path(path_value) ==
    LET raw == ReplaceChar(path_value, "\\", "/")
    IN  IF raw /= <<>> /\ raw[1] = "/" THEN Tail(raw) ELSE raw

-----------------------------------------------------------------------------
(* The filesystem *)

F_a1 == ROOT_DIR \o << S_a, <<"1">> >>          \* /w/r/a/1
F_ab2 == ROOT_DIR \o << S_ab, <<"2">> >>        \* /w/r/ab/2
F_ext1 == << <<"w">>, S_e, <<"1">> >>           \* /w/e/1, outside ROOT_DIR
F_h1 == ROOT_DIR \o << <<".", "h">>, <<"1">> >> \* /w/r/.h/1, in a hidden directory
F_bad == ROOT_DIR \o << S_a, <<"0">> >>         \* /w/r/a/0, an image PIL cannot open
F_txt == ROOT_DIR \o << S_a, <<"b">> >>         \* /w/r/a/b, no image extension
F_a2 == ROOT_DIR \o << S_a, <<"2">> >>          \* /w/r/a/2
F_a10 == ROOT_DIR \o << S_a, <<"1", "0">> >>    \* /w/r/a/10
F_B1 == ROOT_DIR \o << <<"B">>, <<"1">> >>      \* /w/r/B/1
F_ext2 == << <<"w">>, S_e, <<"2">> >>           \* /w/e/2, outside ROOT_DIR
F_ac == ROOT_DIR \o << S_a, <<"c">> >>          \* /w/r/a/c, an image its last rewrite corrupts

F_ah1 == ROOT_DIR \o << S_a, S_h, <<"1">> >>    \* /w/r/a/.h/1, in a hidden directory of a

Files == {F_a1, F_ab2, F_ext1, F_h1, F_bad, F_txt, F_a2, F_a10, F_B1, F_ac,
          F_ext2, F_ah1}

\* entry.suffix.lower() in ALLOWED_EXTENSIONS
HasImageExt(f) == f /= F_txt

\* Image.open(file_path) raises: for a/0 always, for a/c on the content written
\* at time MaxMtime
Unreadable(fsys, f) == f = F_bad \/ (f = F_ac /\ fsys[f] = MaxMtime)

\* open(path, "rb") raises for the file although it exists: the rewrite of a/c at
\* time MaxMtime leaves a file that cannot be read at all
OpenFails(fsys, f) == f = F_ac /\ fsys[f] = MaxMtime

\* img.size
ImageSize(f) == IF f = F_ab2 THEN [width |-> 1, height |-> 2] ELSE [width |-> 2, height |-> 1]

\* os.path.exists(full) and os.path.isfile(full), full given as components
IsFile(fsys, full) == LET n == NormSegs(full, <<>>) IN n \in Files /\ fsys[n] > 0

\* the files iter_image_files_safe(directory) yields; failing: the directories
\* whose listing raises and is skipped
iter_image_files_safe(fsys, directory, failing) ==
    { f \in Files :
        /\ fsys[f] > 0
        /\ Len(f) > Len(directory)
        /\ StartsWith(f, directory)
        /\ \A i \in (Len(directory) + 1)..(Len(f) - 1) : f[i][1] /= "."
        /\ \A i \in Len(directory)..(Len(f) - 1) : SubSeq(f, 1, i) \notin failing
        /\ HasImageExt(f) }

\* process_image_metadata(file_path, ROOT_DIR) for a file it can read
Metadata(fsys, f) ==
    [path |-> RelPath(f), mtime |-> fsys[f],
     width |-> ImageSize(f).width, height |-> ImageSize(f).height,
     is_landscape |-> ImageSize(f).width >= ImageSize(f).height]

\* a batch that is given up as a whole when one file of it cannot be read
process_image_metadata_AllOrNothing(fsys, fset) ==
    IF \E g \in fset : Unreadable(fsys, g) THEN {} ELSE { Metadata(fsys, f) : f \in fset }

\* process_image_metadata over a set of files: the records of those it can read
process_image_metadata(fsys, fset) ==
    { Metadata(fsys, f) : f \in { g \in fset : ~Unreadable(fsys, g) } }

scan_directory_for_images_heavy(fsys, directory, failing) ==
    process_image_metadata(fsys, iter_image_files_safe(fsys, directory, failing))

-----------------------------------------------------------------------------
(* The Index: table images, path is the primary key *)

Row(m) == [mtime |-> m.mtime, width |-> m.width, height |-> m.height,
           is_landscape |-> m.is_landscape]

\* INSERT OR REPLACE INTO images, for a set of metadata records
save_images_to_db(idx, images) ==
    LET paths == { m.path : m \in images }
    IN  [p \in DOMAIN idx \cup paths |->
            IF p \in paths THEN Row(CHOOSE m \in images : m.path = p) ELSE idx[p]]

\* DELETE FROM images WHERE path = ?, for a set of paths
DeleteRows(idx, paths) == [p \in DOMAIN idx \ paths |-> idx[p]]

EmptyIndex == [p \in {} |-> 0]

\* no run of the external sync counted
NoRuns == [p \in {} |-> 0]

\* table playlists, empty
NoPlaylists == [c \in {} |-> <<>>]

-----------------------------------------------------------------------------
(* scan_library_task *)

\* a pass that re-reads every file it finds, whatever the Index says of it
ScanPass_NoDiff(idx, fsys, failing) ==
    LET found == iter_image_files_safe(fsys, ROOT_DIR, failing)
        fs_files == { RelPath(f) : f \in found }
        to_upsert == process_image_metadata(fsys, found)
        to_delete == { p \in DOMAIN idx : is_db_path_under_root(p) /\ p \notin fs_files }
    IN  [to_upsert |-> { m.path : m \in to_upsert },
         to_delete |-> to_delete,
         index |-> DeleteRows(save_images_to_db(idx, to_upsert), to_delete)]

\* the batch of one pass over ROOT_DIR against the Index idx
ScanBatch(idx, fsys, failing) ==
    LET found == iter_image_files_safe(fsys, ROOT_DIR, failing)
        fs_files == { RelPath(f) : f \in found }
        files_to_update ==
            { f \in found : RelPath(f) \notin DOMAIN idx \/ idx[RelPath(f)].mtime /= fsys[f] }
    IN  [to_upsert |-> process_image_metadata(fsys, files_to_update),
         to_delete |-> { p \in DOMAIN idx : is_db_path_under_root(p) /\ p \notin fs_files }]

\* one pass over ROOT_DIR against the Index idx
ScanPass(idx, fsys, failing) ==
    LET batch == ScanBatch(idx, fsys, failing)
    IN  [to_upsert |-> { m.path : m \in batch.to_upsert },
         to_delete |-> batch.to_delete,
         index |-> DeleteRows(save_images_to_db(idx, batch.to_upsert), batch.to_delete)]

NoScan == [ran |-> FALSE, to_upsert |-> {}, to_delete |-> {}, again |-> FALSE,
           index_same |-> TRUE, caches_same |-> TRUE]

\* a pass that forgets user_sessions.clear(): the sessions in memory survive a
\* deletion that clears their durable records
scan_library_task_KeepsSessions(failing) ==
    LET pass == ScanPass(index, fs, failing)
        cleared == pass.to_delete /= {}
        cache2 == IF cleared THEN <<>> ELSE image_cache
        durable2 == IF cleared THEN NoPlaylists ELSE durable
    IN  /\ index' = pass.index
        /\ image_cache' = cache2
        /\ durable' = durable2
        /\ UNCHANGED <<scan, build>>
        /\ scanlog' = [ran |-> TRUE, to_upsert |-> pass.to_upsert,
                       to_delete |-> pass.to_delete, again |-> scanlog.ran,
                       index_same |-> (pass.index = index),
                       caches_same |-> (cache2 = image_cache /\ durable2 = durable)]
        /\ UNCHANGED <<allowParent, fs, synced, sync_runs, tasks, resp, user_sessions>>

\* a pass that forgets clear_all_playlists: the durable sessions survive a deletion
scan_library_task_KeepsDurable(failing) ==
    LET pass == ScanPass(index, fs, failing)
        cleared == pass.to_delete /= {}
        sessions2 == IF cleared THEN <<>> ELSE user_sessions
        cache2 == IF cleared THEN <<>> ELSE image_cache
    IN  /\ index' = pass.index
        /\ user_sessions' = sessions2
        /\ image_cache' = cache2
        /\ UNCHANGED <<scan, build>>
        /\ scanlog' = [ran |-> TRUE, to_upsert |-> pass.to_upsert,
                       to_delete |-> pass.to_delete, again |-> scanlog.ran,
                       index_same |-> (pass.index = index),
                       caches_same |-> (sessions2 = user_sessions /\ cache2 = image_cache)]
        /\ UNCHANGED <<allowParent, fs, synced, sync_runs, tasks, resp, durable>>

scan_library_task(failing) ==
    LET pass == ScanPass(index, fs, failing)
        cleared == pass.to_delete /= {}
        sessions2 == IF cleared THEN <<>> ELSE user_sessions
        cache2 == IF cleared THEN <<>> ELSE image_cache
        durable2 == IF cleared THEN NoPlaylists ELSE durable
    IN  /\ index' = pass.index
        /\ user_sessions' = sessions2
        /\ image_cache' = cache2
        /\ durable' = durable2
        /\ UNCHANGED <<scan, build>>
        /\ scanlog' = [ran |-> TRUE, to_upsert |-> pass.to_upsert,
                       to_delete |-> pass.to_delete, again |-> scanlog.ran,
                       index_same |-> (pass.index = index),
                       caches_same |-> (sessions2 = user_sessions /\ cache2 = image_cache
                                        /\ durable2 = durable)]
        /\ UNCHANGED <<allowParent, fs, synced, sync_runs, tasks, resp>>

-----------------------------------------------------------------------------
(* The environment: the flag and the filesystem *)

NoReq == [paths |-> <<>>, sort |-> "", orientation |-> "", direction |-> "",
          current_path |-> <<>>, current_index |-> 0]

\* the response of a request, with the request it answers: arg is the path of a
\* file request, req the body of a playlist or restore request
NoResp == [op |-> "none", client |-> "", status |-> 0, arg |-> <<>>, req |-> NoReq,
           paths |-> <<>>, data |-> 0, valid_count |-> 0, original_count |-> 0,
           has_session |-> FALSE, source |-> "", playlist_size |-> 0]

\* no scan_library_task pass is running in a worker thread; before: the Index
\* when the pass read it, view: the rows its connection sees, dirty: the
\* connection has written and not committed
ScanIdle == [pc |-> "idle", to_upsert |-> {}, to_delete |-> {}, before |-> EmptyIndex,
             view |-> EmptyIndex, dirty |-> FALSE]

\* no get_playlist request is in progress; ext: the external paths still to
\* sync, scanned: the records of the write in progress
BuildIdle == [pc |-> "idle", client |-> "", req |-> NoReq, req_paths |-> <<>>, ext |-> <<>>,
              scanned |-> {}, view |-> EmptyIndex, dirty |-> FALSE, requery |-> FALSE,
              final_paths |-> <<>>]

\* POST /api/runtime-config
set_runtime_config(v) ==
    /\ allowParent' = v
    /\ resp' = [NoResp EXCEPT !.op = "config", !.status = 200]
    /\ scanlog' = NoScan /\ UNCHANGED <<scan, build>>
    /\ UNCHANGED <<fs, index, durable, user_sessions, image_cache, synced, sync_runs, tasks>>

\* a file is created, or rewritten in place with a new modification time
WriteFile(f, m) ==
    /\ fs[f] /= m
    /\ fs' = [fs EXCEPT ![f] = m]
    /\ scanlog' = NoScan /\ UNCHANGED <<scan, build>>
    /\ UNCHANGED <<allowParent, index, durable, user_sessions, image_cache, synced, sync_runs,
                   tasks, resp>>

\* a file is removed
RemoveFile(f) ==
    /\ fs[f] > 0
    /\ fs' = [fs EXCEPT ![f] = 0]
    /\ scanlog' = NoScan /\ UNCHANGED <<scan, build>>
    /\ UNCHANGED <<allowParent, index, durable, user_sessions, image_cache, synced, sync_runs,
                   tasks, resp>>

\* the state once lifespan has run on a fresh database: the files of F may exist,
\* those of G do
InitOn(F, G) ==
    /\ allowParent \in BOOLEAN
    /\ fs \in { g \in [Files -> 0..1] :
                  \A f \in Files : (g[f] > 0 => f \in F) /\ (f \in G => g[f] > 0) }
    /\ index = ScanPass(EmptyIndex, fs, {}).index
    /\ durable = NoPlaylists
    /\ user_sessions = <<>>
    /\ image_cache = <<>>
    /\ synced = {}
    /\ sync_runs = NoRuns
    /\ tasks = <<>>
    /\ resp = NoResp
    /\ scanlog = NoScan
    /\ scan = ScanIdle /\ build = BuildIdle

-----------------------------------------------------------------------------
(* The session store (cachetools.LRUCache) and its durable mirror *)

UserSession(c, playlist) == [client |-> c, playlist |-> playlist, request_count |-> 0]

HasSession(ss, c) == \E i \in 1..Len(ss) : ss[i].client = c

SessionOf(ss, c) == ss[CHOOSE i \in 1..Len(ss) : ss[i].client = c]

SessionsWithout(ss, c) == SelectSeq(ss, LAMBDA e : e.client /= c)

\* user_sessions.get(c) on a hit: the entry becomes the most recently used
LruTouch(ss, c) ==
    IF HasSession(ss, c) THEN Append(SessionsWithout(ss, c), SessionOf(ss, c)) ELSE ss

\* user_sessions[c] = session: the least recently used entry goes when over maxsize
LruPut(ss, session) ==
    LET t == Append(SessionsWithout(ss, session.client), session)
    IN  IF Len(t) > SESSIONS_MAXSIZE THEN Tail(t) ELSE t

\* session.request_count = n, on the object the store holds
LruSetCount(ss, c, n) ==
    [i \in 1..Len(ss) |-> IF ss[i].client = c THEN [ss[i] EXCEPT !.request_count = n] ELSE ss[i]]

\* INSERT OR IGNORE: a client's earlier record is kept
save_playlist_to_db_KeepsOld(d, c, playlist) ==
    [k \in DOMAIN d \cup {c} |-> IF k \in DOMAIN d THEN d[k] ELSE playlist]

\* INSERT OR REPLACE INTO playlists
save_playlist_to_db(d, c, playlist) ==
    [k \in DOMAIN d \cup {c} |-> IF k = c THEN playlist ELSE d[k]]

\* list.index(x) for x in the list
IndexOf(list, x) == CHOOSE i \in 1..Len(list) : list[i] = x /\ \A j \in 1..(i - 1) : list[j] /= x

InList(list, x) == \E i \in 1..Len(list) : list[i] = x

-----------------------------------------------------------------------------
(* The content cache (functools.lru_cache on get_image_content) *)

Cached(cache, key) == \E i \in 1..Len(cache) : cache[i].key = key

CacheEntry(cache, key) == cache[CHOOSE i \in 1..Len(cache) : cache[i].key = key]

\* get_image_content(key): [ok, data, cache]; the bytes of a file are named by the
\* modification time they were read at
get_image_content(cache, fsys, key) ==
    IF Cached(cache, key)
    THEN [ok |-> TRUE, data |-> CacheEntry(cache, key).data,
          cache |-> Append(SelectSeq(cache, LAMBDA e : e.key /= key), CacheEntry(cache, key))]
    ELSE IF IsFile(fsys, key) /\ ~OpenFails(fsys, NormSegs(key, <<>>))
    THEN LET data == fsys[NormSegs(key, <<>>)]
             t == Append(cache, [key |-> key, data |-> data])
         IN  [ok |-> TRUE, data |-> data,
              cache |-> IF Len(t) > IMAGE_CACHE_MAXSIZE THEN Tail(t) ELSE t]
    ELSE [ok |-> FALSE, data |-> 0, cache |-> cache]

-----------------------------------------------------------------------------
(* The preloader *)

\* an except clause that lets the exception go on
except_Exception_pass_Reraises(raised) == raised

\* except Exception: pass, around one image of the window: whether an exception
\* is still in flight after the clause
except_Exception_pass(raised) == FALSE

RECURSIVE PreloadFrom(_, _, _, _, _)
\* the loop of preload_surrounding_images from offset i to offset last: the cache
\* after it (cache), the indices playlist was read at, counted from 0 (visited),
\* and those whose file get_image_content was called for (asked), in order, and
\* whether the loop ended with an exception (raised): an exception that leaves the
\* try statement ends the loop at that image
PreloadFrom(cache, fsys, playlist, i, last) ==
    IF i > last THEN [cache |-> cache, visited |-> <<>>, asked |-> <<>>, raised |-> FALSE]
    ELSE LET wrapped_index == i % Len(playlist)
             image_path_full == JoinRoot(playlist[wrapped_index + 1])
             exists == IsFile(fsys, image_path_full)
             got == get_image_content(cache, fsys, image_path_full)
             raised == except_Exception_pass(exists /\ ~got.ok)
             rest == IF raised
                     THEN [cache |-> cache, visited |-> <<>>, asked |-> <<>>, raised |-> TRUE]
                     ELSE PreloadFrom(IF exists THEN got.cache ELSE cache,
                                      fsys, playlist, i + 1, last)
         IN  [cache |-> rest.cache,
              visited |-> <<wrapped_index>> \o rest.visited,
              asked |-> IF exists THEN <<wrapped_index>> \o rest.asked ELSE rest.asked,
              raised |-> rest.raised]

\* a preloader that stops at the ends of the playlist instead of wrapping around
preload_surrounding_images_Clamped(cache, fsys, playlist, current_index) ==
    IF Len(playlist) = 0
    THEN [cache |-> cache, visited |-> <<>>, asked |-> <<>>, raised |-> FALSE]
    ELSE PreloadFrom(cache, fsys, playlist, Max(0, current_index - PRELOAD_WINDOW),
                     Min(Len(playlist) - 1, current_index + PRELOAD_WINDOW))

preload_surrounding_images(cache, fsys, playlist, current_index) ==
    IF Len(playlist) = 0
    THEN [cache |-> cache, visited |-> <<>>, asked |-> <<>>, raised |-> FALSE]
    ELSE PreloadFrom(cache, fsys, playlist, current_index - PRELOAD_WINDOW,
                     current_index + PRELOAD_WINDOW)

PreloadTask(playlist, current_index) == [playlist |-> playlist, current_index |-> current_index]

\* the oldest scheduled background task runs
RunPreload ==
    /\ tasks /= <<>>
    /\ image_cache' = preload_surrounding_images(image_cache, fs, Head(tasks).playlist,
                                                 Head(tasks).current_index).cache
    /\ tasks' = Tail(tasks)
    /\ scanlog' = NoScan /\ UNCHANGED <<scan, build>>
    /\ UNCHANGED <<allowParent, fs, index, durable, user_sessions, synced, sync_runs, resp>>

-----------------------------------------------------------------------------
(* GET /api/file and GET /{file_path} *)

FileResp(c, path_value, status, data) ==
    [NoResp EXCEPT !.op = "file", !.client = c, !.status = status,
                   !.arg = path_value, !.data = data]

\* a ROOT_DIR check that is skipped for a file whose bytes are already cached
ServeForbidden_UnlessCached(rel_path) ==
    ~allowParent /\ ~is_path_in_root_dir(rel_path) /\ ~Cached(image_cache, AbsPath(rel_path))

\* the ROOT_DIR check of serve_file_core
ServeForbidden(rel_path) == ~allowParent /\ ~is_path_in_root_dir(rel_path)

\* the existence check of serve_file_core
ServeMissing(full_path) == ~IsFile(fs, full_path)

\* the two checks in the other order: existence first
ServeGate_ExistenceFirst(rel_path, full_path) ==
    IF ServeMissing(full_path) THEN 404
    ELSE IF ServeForbidden(rel_path) THEN 403
    ELSE 0

\* what serve_file_core answers before it looks at the session: 403, 404 or 0 (go on)
ServeGate(rel_path, full_path) ==
    IF ServeForbidden(rel_path) THEN 403
    ELSE IF ServeMissing(full_path) THEN 404
    ELSE 0

serve_file_core(c, path_value) ==
    LET rel_path == resolve_relative_file_path(path_value)
        full_path == AbsPath(rel_path)
        gate == ServeGate(rel_path, full_path)
        \* user_sessions.get(client_ip)
        had == HasSession(user_sessions, c)
        ss1 == LruTouch(user_sessions, c)
        \* session recovery from the playlists table
        playlist == IF ~had /\ c \in DOMAIN durable THEN durable[c] ELSE <<>>
        recovered == ~had /\ playlist /= <<>>
        ss2 == IF recovered THEN LruPut(ss1, UserSession(c, playlist)) ELSE ss1
        t1 == IF recovered /\ InList(playlist, rel_path)
              THEN <<PreloadTask(playlist, IndexOf(playlist, rel_path) - 1)>> ELSE <<>>
        \* the request counter
        has == HasSession(ss2, c)
        session == SessionOf(ss2, c)
        count == session.request_count + 1
        fire == count % PRELOAD_EVERY = 1
        ss3 == IF has THEN LruSetCount(ss2, c, IF fire THEN 1 ELSE count) ELSE ss2
        t2 == IF has /\ fire /\ InList(session.playlist, rel_path)
              THEN <<PreloadTask(session.playlist, IndexOf(session.playlist, rel_path) - 1)>>
              ELSE <<>>
        got == get_image_content(image_cache, fs, full_path)
    IN  /\ scanlog' = NoScan /\ UNCHANGED <<scan, build>>
        /\ IF gate /= 0
           THEN /\ resp' = FileResp(c, path_value, gate, 0)
                /\ UNCHANGED <<allowParent, fs, index, durable, user_sessions,
                               image_cache, synced, sync_runs, tasks>>
           ELSE /\ user_sessions' = ss3
                /\ tasks' = tasks \o t1 \o t2
                /\ image_cache' = got.cache
                /\ resp' = IF got.ok THEN FileResp(c, path_value, 200, got.data)
                           ELSE FileResp(c, path_value, 500, 0)
                /\ UNCHANGED <<allowParent, fs, index, durable, synced, sync_runs>>

-----------------------------------------------------------------------------
(* Sorting *)

Reverse(list) == [i \in 1..Len(list) |-> list[Len(list) + 1 - i]]

RECURSIVE RunEnd(_, _, _)
\* the end of the run of digits (digit = TRUE) or of non-digits that starts at s[i]
RunEnd(s, i, digit) ==
    IF i > Len(s) \/ IsDigit(s[i]) /= digit THEN i - 1 ELSE RunEnd(s, i + 1, digit)

RECURSIVE IntOf(_, _)
\* int(digits), acc the value so far
IntOf(digits, acc) ==
    IF digits = <<>> THEN acc ELSE IntOf(Tail(digits), 10 * acc + (Ord(Head(digits)) - 48))

RECURSIVE NatChunks(_, _, _)
\* natsort's key from position i on: text and number alternate, text first
NatChunks(s, i, digit) ==
    IF i > Len(s) THEN <<>>
    ELSE LET e == RunEnd(s, i, digit)
             run == SubSeq(s, i, e)
         IN  <<[num |-> digit, val |-> IF digit THEN IntOf(run, 0) ELSE 0,
                str |-> IF digit THEN <<>> ELSE run]>> \o NatChunks(s, e + 1, ~digit)

\* natsort.natsort_key(path)
natsort_key(path) == NatChunks(path, 1, FALSE)

RECURSIVE StrLess(_, _)
\* str < str, by code point
StrLess(a, b) ==
    IF b = <<>> THEN FALSE
    ELSE IF a = <<>> THEN TRUE
    ELSE IF Ord(Head(a)) /= Ord(Head(b)) THEN Ord(Head(a)) < Ord(Head(b))
    ELSE StrLess(Tail(a), Tail(b))

RECURSIVE KeyLess(_, _)
\* tuple < tuple for two natsort keys
KeyLess(k1, k2) ==
    IF k2 = <<>> THEN FALSE
    ELSE IF k1 = <<>> THEN TRUE
    ELSE IF Head(k1) = Head(k2) THEN KeyLess(Tail(k1), Tail(k2))
    ELSE IF Head(k1).num THEN Head(k1).val < Head(k2).val
    ELSE StrLess(Head(k1).str, Head(k2).str)

\* the key of an element sorted by a number
IntKey(n) == <<[num |-> TRUE, val |-> n, str |-> <<>>]>>

RECURSIVE InsertKeyed(_, _)
\* e goes behind the last element whose key is not greater than e's
InsertKeyed(sorted, e) ==
    IF sorted = <<>> THEN <<e>>
    ELSE IF KeyLess(e.key, sorted[Len(sorted)].key)
         THEN Append(InsertKeyed(SubSeq(sorted, 1, Len(sorted) - 1), e), sorted[Len(sorted)])
         ELSE Append(sorted, e)

RECURSIVE SortKeyed(_, _)
SortKeyed(sorted, rest) ==
    IF rest = <<>> THEN sorted ELSE SortKeyed(InsertKeyed(sorted, Head(rest)), Tail(rest))

\* list.sort(key=...): ascending in the key, stable; key maps each element of the
\* list to its sort key
StableSort(list, key) ==
    LET keyed == <<>> \o [i \in 1..Len(list) |-> [key |-> key[list[i]], item |-> list[i]]]
        sorted == SortKeyed(<<>>, keyed)
    IN  [i \in 1..Len(sorted) |-> sorted[i].item]

\* os.path.dirname(path)
Dirname(path) ==
    LET segs == Split(path) IN Join(SubSeq(segs, 1, Len(segs) - 1))

\* the keys of subfolder_map, in the order of first appearance in list
RECURSIVE FoldersOf(_, _)
FoldersOf(list, seen) ==
    IF list = <<>> THEN <<>>
    ELSE IF Dirname(Head(list)) \in seen THEN FoldersOf(Tail(list), seen)
    ELSE <<Dirname(Head(list))>> \o FoldersOf(Tail(list), seen \cup {Dirname(Head(list))})

RECURSIVE ConcatFolders(_, _)
\* for folder in subfolders: the folder's items in natural order
ConcatFolders(subfolders, list) ==
    IF subfolders = <<>> THEN <<>>
    ELSE StableSort(SelectSeq(list, LAMBDA p : Dirname(p) = Head(subfolders)),
                    [p \in Range(list) |-> natsort_key(p)])
         \o ConcatFolders(Tail(subfolders), list)

\* a set as a list in the order of the list order; order names every element
InOrder(set, order) == SelectSeq(order, LAMBDA x : x \in set)

\* step 3 of get_playlist: results is the de-duplicated list of paths; env carries
\* what random.shuffle draws (shuffle: a list naming every path) and what
\* os.path.getmtime answers for a folder (dir_mtime)
SortPaths(results, idx, sort, env) ==
    LET folders == FoldersOf(results, {})
        fpos(d) == CHOOSE i \in 1..Len(env.shuffle) : Dirname(env.shuffle[i]) = d
                      /\ \A j \in 1..(i - 1) : Dirname(env.shuffle[j]) /= d
    IN  CASE sort = "shuffle" -> InOrder({ results[i] : i \in 1..Len(results) }, env.shuffle)
          [] sort = "date" ->
                \* key=mtime, reverse=True: descending, equal keys keep their order
                StableSort(results, [p \in Range(results) |-> IntKey(0 - idx[p].mtime)])
          [] sort = "subfolder_random" ->
                ConcatFolders(StableSort(folders, [d \in Range(folders) |-> IntKey(fpos(d))]), results)
          [] sort = "subfolder_date" ->
                ConcatFolders(StableSort(folders, [d \in Range(folders) |-> IntKey(env.dir_mtime[d])]),
                              results)
          [] OTHER -> StableSort(results, [p \in Range(results) |-> natsort_key(p)])

\* a rotation whose second slice runs one element too far: the anchor comes twice
Rotate_SliceTooLong(final_paths, current_path) ==
    LET start_index == IndexOf(final_paths, current_path)
    IN  SubSeq(final_paths, start_index, Len(final_paths))
        \o SubSeq(final_paths, 1, start_index)

\* final_paths[start_index:] + final_paths[:start_index]
Rotate(final_paths, current_path) ==
    LET start_index == IndexOf(final_paths, current_path)
    IN  SubSeq(final_paths, start_index, Len(final_paths))
        \o SubSeq(final_paths, 1, start_index - 1)

-----------------------------------------------------------------------------
(* POST /api/playlist *)

RECURSIVE Dedup(_, _)
\* list(dict.fromkeys(list))
Dedup(list, seen) ==
    IF list = <<>> THEN <<>>
    ELSE IF Head(list) \in seen THEN Dedup(Tail(list), seen)
    ELSE <<Head(list)>> \o Dedup(Tail(list), seen \cup {Head(list)})

IsRootSel(p) == p = <<>> \/ p = S_dot

SanitizeOne(path) ==
    IF path = <<>> \/ path = S_dot THEN S_dot
    ELSE LET rel == normalize_rel_path(path)
         IN  IF ~allowParent /\ ~is_path_in_root_dir(rel) THEN S_dot ELSE rel

sanitize_playlist_paths(paths) ==
    Dedup([i \in 1..Len(paths) |-> SanitizeOne(paths[i])], {})

\* the external_paths of get_playlist
ExternalPaths(req_paths) ==
    LET ext == SelectSeq(req_paths, LAMBDA p : ~IsRootSel(p) /\ ~is_path_in_root_dir(p))
    IN  Dedup([i \in 1..Len(ext) |-> normalize_rel_path(ext[i])], {})

\* sync_external_path_to_db(path): the Index after it
sync_external_path_to_db(idx, fsys, path, failing) ==
    LET normalized == normalize_rel_path(path)
        scanned == scan_directory_for_images_heavy(fsys, AbsPath(normalized), failing)
        scanned_paths == { m.path : m \in scanned }
        like_prefix == escape_like_pattern(normalized) \o <<"/", "%">>
        idx1 == save_images_to_db(idx, scanned)
        existing_paths == { p \in DOMAIN idx1 : Like(p, like_prefix, "\\") }
        to_delete == existing_paths \ scanned_paths
    IN  IF normalized = <<>> THEN idx ELSE DeleteRows(idx1, to_delete)

RECURSIVE SyncExternalPaths(_, _, _, _, _)
\* the loop over external_paths: the Index after it (index) and the paths that
\* sync_external_path_to_db was called for, in order (ran)
SyncExternalPaths(idx, fsys, external_paths, done, failing) ==
    IF external_paths = <<>> THEN [index |-> idx, ran |-> <<>>]
    ELSE LET ext_path == Head(external_paths)
             skip == ext_path \in done
             rest == SyncExternalPaths(
                        IF skip THEN idx
                        ELSE sync_external_path_to_db(idx, fsys, ext_path, failing),
                        fsys, Tail(external_paths), done \cup {ext_path}, failing)
         IN  [index |-> rest.index,
              ran |-> IF skip THEN rest.ran ELSE <<ext_path>> \o rest.ran]

\* the number of runs counted for path in runs
RunsOf(runs, path) == IF path \in DOMAIN runs THEN runs[path] ELSE 0

RECURSIVE CountRuns(_, _)
\* runs with one more run counted for every path of the list ran
CountRuns(runs, ran) ==
    IF ran = <<>> THEN runs
    ELSE CountRuns([p \in DOMAIN runs \cup {Head(ran)} |->
                       IF p = Head(ran) THEN Min(RunsOf(runs, p) + 1, MaxSyncRuns)
                       ELSE runs[p]],
                   Tail(ran))

\* a build that does not record the paths it has synced
MarkSynced_Forgets(done, external_paths) == done

\* external_synced_paths_this_boot.add(ext_path) for every external path
MarkSynced(done, external_paths) == done \cup Range(external_paths)

\* one condition of the WHERE clause of query_images_from_db
PathCondition(path, p) ==
    IF p = <<>> \/ p = S_dot
    THEN ~Like(path, <<".", ".", "/", "%">>, "")
    ELSE Like(path, p \o <<"/", "%">>, "")

OrientationCondition(row, orientation) ==
    CASE orientation = "Landscape" -> row.is_landscape
      [] orientation = "Portrait" -> ~row.is_landscape
      [] OTHER -> TRUE

\* the WHERE clause of query_images_from_db
QueryWhere(idx, path, paths, orientation) ==
    /\ \E i \in 1..Len(paths) : PathCondition(path, paths[i])
    /\ OrientationCondition(idx[path], orientation)

\* query_images_from_db(paths): the paths of the rows, in the order the database
\* returns them (order: a list naming every path of the table)
query_images_from_db(idx, paths, orientation, order) ==
    SelectSeq(order, LAMBDA path : path \in DOMAIN idx /\ QueryWhere(idx, path, paths, orientation))

get_missing_paths_from_db(idx, paths) ==
    SelectSeq(paths, LAMBDA p :
        /\ ~IsRootSel(p)
        /\ ~\E path \in DOMAIN idx : Like(path, p \o <<"/", "%">>, ""))

\* the paths get_playlist scans and backfills
MissingPaths(idx, req_paths, external_paths) ==
    LET external_set == { normalize_rel_path(external_paths[i]) : i \in 1..Len(external_paths) }
    IN  SelectSeq(get_missing_paths_from_db(idx, req_paths),
                  LAMBDA p : normalize_rel_path(p) \notin external_set)

\* dedup_results: one entry for each path, in the order of first appearance
DedupResults(results) == Dedup(results, {})

\* the two steps in the other order: the list is rotated to the anchor, then reversed
DirectAndRotate_RotateFirst(sorted, direction, raw_current_path) ==
    LET current_path == normalize_rel_path(raw_current_path)
        rotated == IF /\ current_path /= <<>>
                      /\ (allowParent \/ is_path_in_root_dir(current_path))
                      /\ InList(sorted, current_path)
                   THEN Rotate(sorted, current_path)
                   ELSE sorted
    IN  IF direction = "reverse" THEN Reverse(rotated) ELSE rotated

\* the direction and rotation steps of get_playlist
DirectAndRotate(sorted, direction, raw_current_path) ==
    LET final_paths == IF direction = "reverse" THEN Reverse(sorted) ELSE sorted
        current_path == normalize_rel_path(raw_current_path)
    IN  IF /\ current_path /= <<>>
           /\ (allowParent \/ is_path_in_root_dir(current_path))
           /\ InList(final_paths, current_path)
        THEN Rotate(final_paths, current_path)
        ELSE final_paths

PlaylistResp(c, req, final_paths) ==
    [NoResp EXCEPT !.op = "playlist", !.client = c, !.status = 200, !.req = req,
                   !.paths = final_paths]

\* steps 1 and 2 of get_playlist: the Index once the external paths are synced
\* and the paths without any row are scanned and backfilled
BackfilledIndex(req_paths, env) ==
    LET external_paths == ExternalPaths(req_paths)
        idx1 == SyncExternalPaths(index, fs, external_paths, synced, env.failing).index
        missing_paths == MissingPaths(idx1, req_paths, external_paths)
        scanned_results ==
            UNION { scan_directory_for_images_heavy(fs, AbsPath(missing_paths[i]), env.failing)
                    : i \in 1..Len(missing_paths) }
    IN  save_images_to_db(idx1, scanned_results)

\* the final query, the de-duplication and steps 3 of get_playlist on the Index idx
FinalPaths(idx, req_paths, req, env) ==
    LET results == DedupResults(query_images_from_db(idx, req_paths, req.orientation, env.order))
    IN  DirectAndRotate(SortPaths(results, idx, req.sort, env), req.direction, req.current_path)

\* a build that never takes the early return
NoPaths_Never(req) == FALSE

\* `if not req.paths`: the request names no prefix
NoPaths(req) == req.paths = <<>>

\* get_playlist for client c; env: the order the database returns rows in (order),
\* random.shuffle's draw (shuffle), folder mtimes (dir_mtime), and the directories
\* whose listing raises (failing)
get_playlist(c, req, env) ==
    /\ scanlog' = NoScan /\ UNCHANGED <<scan, build>>
    /\ IF NoPaths(req)
       THEN /\ resp' = PlaylistResp(c, req, <<>>)
            /\ UNCHANGED <<allowParent, fs, index, durable, user_sessions,
                           image_cache, synced, sync_runs, tasks>>
       ELSE \E req_paths \in {sanitize_playlist_paths(req.paths)} :
            \E idx \in {BackfilledIndex(req_paths, env)} :
            \E final_paths \in {FinalPaths(idx, req_paths, req, env)} :
                /\ index' = idx
                /\ synced' = MarkSynced(synced, ExternalPaths(req_paths))
                /\ sync_runs' = CountRuns(sync_runs,
                                   SyncExternalPaths(index, fs, ExternalPaths(req_paths),
                                                     synced, env.failing).ran)
                /\ user_sessions' = LruPut(user_sessions, UserSession(c, final_paths))
                /\ durable' = save_playlist_to_db(durable, c, final_paths)
                /\ tasks' = IF final_paths /= <<>>
                            THEN Append(tasks, PreloadTask(final_paths, 0)) ELSE tasks
                /\ resp' = PlaylistResp(c, req, final_paths)
                /\ UNCHANGED <<allowParent, fs, image_cache>>

-----------------------------------------------------------------------------
(* POST /api/restore-playlist *)

\* a validation that drops a candidate already kept: repeated candidates collapse
ValidPaths_Collapsed(playlist) ==
    Dedup(SelectSeq(playlist, LAMBDA path : IsFile(fs, JoinRoot(path))), {})

\* valid_paths: the candidates that are existing regular files under os.path.join
ValidPaths(playlist) == SelectSeq(playlist, LAMBDA path : IsFile(fs, JoinRoot(path)))

RestoreResp(c, req, status, valid_paths) ==
    [NoResp EXCEPT !.op = "restore", !.client = c, !.status = status, !.req = req,
                   !.paths = valid_paths, !.valid_count = Len(valid_paths),
                   !.original_count = IF status = 200 THEN Len(req.paths) ELSE 0]

\* a restore that installs the submitted list before it validates it
restore_playlist_InstallsFirst(c, req) ==
    LET playlist == req.paths
        valid_paths == ValidPaths(playlist)
        current_index == Max(0, Min(req.current_index, Len(valid_paths) - 1))
    IN  /\ scanlog' = NoScan /\ UNCHANGED <<scan, build>>
        /\ IF playlist = <<>> \/ valid_paths = <<>>
           THEN /\ resp' = RestoreResp(c, req, 400, <<>>)
                /\ user_sessions' = LruPut(user_sessions, UserSession(c, playlist))
                /\ UNCHANGED <<allowParent, fs, index, durable, image_cache, synced,
                               sync_runs, tasks>>
           ELSE /\ user_sessions' = LruPut(user_sessions, UserSession(c, valid_paths))
                /\ durable' = save_playlist_to_db(durable, c, valid_paths)
                /\ tasks' = Append(tasks, PreloadTask(valid_paths, current_index))
                /\ resp' = RestoreResp(c, req, 200, valid_paths)
                /\ UNCHANGED <<allowParent, fs, index, image_cache, synced, sync_runs>>

restore_playlist(c, req) ==
    LET playlist == req.paths
        valid_paths == ValidPaths(playlist)
        current_index == Max(0, Min(req.current_index, Len(valid_paths) - 1))
    IN  /\ scanlog' = NoScan /\ UNCHANGED <<scan, build>>
        /\ IF playlist = <<>> \/ valid_paths = <<>>
           THEN /\ resp' = RestoreResp(c, req, 400, <<>>)
                /\ UNCHANGED <<allowParent, fs, index, durable, user_sessions,
                               image_cache, synced, sync_runs, tasks>>
           ELSE /\ user_sessions' = LruPut(user_sessions, UserSession(c, valid_paths))
                /\ durable' = save_playlist_to_db(durable, c, valid_paths)
                /\ tasks' = Append(tasks, PreloadTask(valid_paths, current_index))
                /\ resp' = RestoreResp(c, req, 200, valid_paths)
                /\ UNCHANGED <<allowParent, fs, index, image_cache, synced, sync_runs>>

-----------------------------------------------------------------------------
(* GET /api/session-status *)

get_session_status(c) ==
    LET in_memory == HasSession(user_sessions, c)
        playlist == IF c \in DOMAIN durable THEN durable[c] ELSE <<>>
    IN  /\ scanlog' = NoScan /\ UNCHANGED <<scan, build>>
        /\ user_sessions' = LruTouch(user_sessions, c)
        /\ resp' = IF in_memory
                   THEN [NoResp EXCEPT !.op = "status", !.client = c, !.status = 200,
                            !.has_session = TRUE, !.source = "memory",
                            !.playlist_size = Len(SessionOf(user_sessions, c).playlist)]
                   ELSE IF playlist /= <<>>
                   THEN [NoResp EXCEPT !.op = "status", !.client = c, !.status = 200,
                            !.has_session = TRUE, !.source = "database",
                            !.playlist_size = Len(playlist)]
                   ELSE [NoResp EXCEPT !.op = "status", !.client = c, !.status = 200]
        /\ UNCHANGED <<allowParent, fs, index, durable, image_cache, synced, sync_runs, tasks>>

-----------------------------------------------------------------------------
(* The process restarts: memory is lost, the database and the files stay, and
   lifespan clears the external-sync markers and runs scan_library_task *)

Restart ==
    LET pass == ScanPass(index, fs, {})
        cleared == pass.to_delete /= {}
    IN  /\ index' = pass.index
        /\ durable' = IF cleared THEN NoPlaylists ELSE durable
        /\ user_sessions' = <<>>
        /\ image_cache' = <<>>
        /\ synced' = {}
        /\ sync_runs' = NoRuns
        /\ tasks' = <<>>
        /\ resp' = NoResp
        /\ scanlog' = NoScan
        /\ scan' = ScanIdle /\ build' = BuildIdle
        /\ allowParent' \in BOOLEAN
        /\ UNCHANGED fs

-----------------------------------------------------------------------------
(* The database under concurrent connections. get_db opens a connection with
   sqlite3's default isolation level: the first INSERT or DELETE of a connection
   opens a transaction and takes the write lock, and conn.commit() publishes
   the writes; a connection closed without commit rolls them back *)

\* connections in autocommit mode: every statement is published when it runs
VisibleToOthers_Autocommit(committed, view) == view

\* what the other connections read once a connection has written view and not
\* committed it
VisibleToOthers(committed, view) == committed

-----------------------------------------------------------------------------
(* scan_library_task as the background task of POST /api/scan: it runs in a
   worker thread, one statement at a time, beside the request handlers *)

\* the walk of ROOT_DIR, the SELECT of the table and the diff
ScanStart(failing) ==
    /\ scan.pc \in {"idle", "failed"}
    /\ scan' = [ScanIdle EXCEPT !.pc = "diffed",
                                !.to_upsert = ScanBatch(index, fs, failing).to_upsert,
                                !.to_delete = ScanBatch(index, fs, failing).to_delete,
                                !.before = index]
    /\ scanlog' = NoScan
    /\ UNCHANGED <<allowParent, fs, index, durable, user_sessions, image_cache, synced,
                   sync_runs, tasks, resp, build>>

\* `if to_upsert: conn.executemany(INSERT OR REPLACE ...)`
ScanUpsert ==
    /\ scan.pc = "diffed"
    /\ IF scan.to_upsert = {}
       THEN /\ scan' = [scan EXCEPT !.pc = "upserted"]
            /\ UNCHANGED index
       ELSE /\ ~build.dirty
            /\ scan' = [scan EXCEPT !.pc = "upserted", !.dirty = TRUE,
                                    !.view = save_images_to_db(index, scan.to_upsert)]
            /\ index' = VisibleToOthers(index, save_images_to_db(index, scan.to_upsert))
    /\ scanlog' = NoScan
    /\ UNCHANGED <<allowParent, fs, durable, user_sessions, image_cache, synced,
                   sync_runs, tasks, resp, build>>

\* `if to_delete: conn.executemany(DELETE ...)`
ScanDelete ==
    /\ scan.pc = "upserted"
    /\ IF scan.to_delete = {}
       THEN /\ scan' = [scan EXCEPT !.pc = "deleted"]
            /\ UNCHANGED index
       ELSE /\ scan.dirty \/ ~build.dirty
            /\ LET base == IF scan.dirty THEN scan.view ELSE index
               IN  /\ scan' = [scan EXCEPT !.pc = "deleted", !.dirty = TRUE,
                                           !.view = DeleteRows(base, scan.to_delete)]
                   /\ index' = VisibleToOthers(index, DeleteRows(base, scan.to_delete))
    /\ scanlog' = NoScan
    /\ UNCHANGED <<allowParent, fs, durable, user_sessions, image_cache, synced,
                   sync_runs, tasks, resp, build>>

\* conn.commit(); the pass is over unless it deleted a record
ScanCommit ==
    /\ scan.pc = "deleted"
    /\ index' = IF scan.dirty THEN scan.view ELSE index
    /\ scan' = IF scan.to_delete /= {} THEN [scan EXCEPT !.pc = "committed", !.dirty = FALSE]
                ELSE ScanIdle
    /\ scanlog' = NoScan
    /\ UNCHANGED <<allowParent, fs, durable, user_sessions, image_cache, synced,
                   sync_runs, tasks, resp, build>>

\* a failure that commits on its way out what the pass has written so far
ScanFail_KeepsWrites ==
    /\ scan.pc \in {"diffed", "upserted", "deleted"}
    /\ scan' = [scan EXCEPT !.pc = "failed", !.dirty = FALSE, !.view = EmptyIndex]
    /\ index' = IF scan.dirty THEN scan.view ELSE index
    /\ scanlog' = NoScan
    /\ UNCHANGED <<allowParent, fs, durable, user_sessions, image_cache, synced,
                   sync_runs, tasks, resp, build>>

\* a statement or the commit raises: the connection is closed without commit and
\* the task ends with the exception; the record keeps the batch it had computed
ScanFail ==
    /\ scan.pc \in {"diffed", "upserted", "deleted"}
    /\ scan' = [scan EXCEPT !.pc = "failed", !.dirty = FALSE, !.view = EmptyIndex]
    /\ scanlog' = NoScan
    /\ UNCHANGED <<allowParent, fs, index, durable, user_sessions, image_cache, synced,
                   sync_runs, tasks, resp, build>>

\* user_sessions.clear()
ScanClearSessions ==
    /\ scan.pc = "committed"
    /\ user_sessions' = <<>>
    /\ scan' = [scan EXCEPT !.pc = "sessions_cleared"]
    /\ scanlog' = NoScan
    /\ UNCHANGED <<allowParent, fs, index, durable, image_cache, synced,
                   sync_runs, tasks, resp, build>>

\* get_image_content.cache_clear()
ScanClearCache ==
    /\ scan.pc = "sessions_cleared"
    /\ image_cache' = <<>>
    /\ scan' = [scan EXCEPT !.pc = "cache_cleared"]
    /\ scanlog' = NoScan
    /\ UNCHANGED <<allowParent, fs, index, durable, user_sessions, synced,
                   sync_runs, tasks, resp, build>>

\* clear_all_playlists(); the pass is over
ScanClearDurable ==
    /\ scan.pc = "cache_cleared"
    /\ durable' = NoPlaylists
    /\ scan' = ScanIdle
    /\ scanlog' = NoScan
    /\ UNCHANGED <<allowParent, fs, index, user_sessions, image_cache, synced,
                   sync_runs, tasks, resp, build>>

-----------------------------------------------------------------------------
(* get_playlist one database statement at a time, as the worker thread of
   scan_library_task sees it; the other request handlers run on the same event
   loop and wait until it has answered *)

\* the request arrives with a list of paths that is not empty
BuildStart(c, req) ==
    /\ build.pc = "idle"
    /\ ~NoPaths(req)
    /\ build' = [BuildIdle EXCEPT !.pc = "sync", !.client = c, !.req = req,
                     !.req_paths = sanitize_playlist_paths(req.paths),
                     !.ext = ExternalPaths(sanitize_playlist_paths(req.paths))]
    /\ scanlog' = NoScan
    /\ UNCHANGED <<allowParent, fs, index, durable, user_sessions, image_cache, synced,
                   sync_runs, tasks, resp, scan>>

\* `if ext_path not in external_synced_paths_this_boot` is false
BuildSyncSkip ==
    /\ build.pc = "sync" /\ build.ext /= <<>> /\ Head(build.ext) \in synced
    /\ build' = [build EXCEPT !.ext = Tail(build.ext)]
    /\ scanlog' = NoScan
    /\ UNCHANGED <<allowParent, fs, index, durable, user_sessions, image_cache, synced,
                   sync_runs, tasks, resp, scan>>

\* sync_external_path_to_db: the heavy scan and `if scanned: conn.executemany(INSERT ...)`
BuildSyncUpsert(env) ==
    /\ build.pc = "sync" /\ build.ext /= <<>> /\ Head(build.ext) \notin synced
    /\ LET scanned == scan_directory_for_images_heavy(
                          fs, AbsPath(normalize_rel_path(Head(build.ext))), env.failing)
       IN  IF scanned = {}
           THEN /\ build' = [build EXCEPT !.pc = "sync_upserted", !.scanned = {}]
                /\ UNCHANGED index
           ELSE /\ ~scan.dirty
                /\ build' = [build EXCEPT !.pc = "sync_upserted", !.scanned = scanned,
                                          !.dirty = TRUE,
                                          !.view = save_images_to_db(index, scanned)]
                /\ index' = VisibleToOthers(index, save_images_to_db(index, scanned))
    /\ scanlog' = NoScan
    /\ UNCHANGED <<allowParent, fs, durable, user_sessions, image_cache, synced,
                   sync_runs, tasks, resp, scan>>

\* the rows of idx under the prefix of an external path that the heavy scan did
\* not find
StaleUnder(idx, ext_path, scanned) ==
    LET like_prefix == escape_like_pattern(normalize_rel_path(ext_path)) \o <<"/", "%">>
    IN  { p \in DOMAIN idx : Like(p, like_prefix, "\\") } \ { m.path : m \in scanned }

\* sync_external_path_to_db: the SELECT of the rows under the prefix and
\* `if to_delete: conn.executemany(DELETE ...)`
BuildSyncDelete ==
    /\ build.pc = "sync_upserted"
    /\ LET base == IF build.dirty THEN build.view ELSE index
           to_delete == StaleUnder(base, Head(build.ext), build.scanned)
       IN  IF to_delete = {}
           THEN /\ build' = [build EXCEPT !.pc = "sync_deleted"]
                /\ UNCHANGED index
           ELSE /\ build.dirty \/ ~scan.dirty
                /\ build' = [build EXCEPT !.pc = "sync_deleted", !.dirty = TRUE,
                                          !.view = DeleteRows(base, to_delete)]
                /\ index' = VisibleToOthers(index, DeleteRows(base, to_delete))
    /\ scanlog' = NoScan
    /\ UNCHANGED <<allowParent, fs, durable, user_sessions, image_cache, synced,
                   sync_runs, tasks, resp, scan>>

\* sync_external_path_to_db: conn.commit(), and the path is marked as synced
BuildSyncCommit ==
    /\ build.pc = "sync_deleted"
    /\ index' = IF build.dirty THEN build.view ELSE index
    /\ synced' = MarkSynced(synced, <<Head(build.ext)>>)
    /\ sync_runs' = CountRuns(sync_runs, <<Head(build.ext)>>)
    /\ build' = [build EXCEPT !.pc = "sync", !.ext = Tail(build.ext), !.dirty = FALSE,
                              !.scanned = {}]
    /\ scanlog' = NoScan
    /\ UNCHANGED <<allowParent, fs, durable, user_sessions, image_cache,
                   tasks, resp, scan>>

\* the first query, the paths without any row, their heavy scan and the
\* executemany of save_images_to_db
BuildBackfill(env) ==
    /\ build.pc = "sync" /\ build.ext = <<>>
    /\ LET missing_paths == MissingPaths(index, build.req_paths, ExternalPaths(build.req_paths))
           scanned_results ==
               UNION { scan_directory_for_images_heavy(fs, AbsPath(missing_paths[i]),
                                                       env.failing)
                       : i \in 1..Len(missing_paths) }
           results == FinalPaths(index, build.req_paths, build.req, env)
       IN  IF scanned_results = {}
           THEN /\ build' = [build EXCEPT !.pc = "committed", !.final_paths = results,
                                          !.requery = (missing_paths /= <<>>)]
                /\ UNCHANGED index
           ELSE /\ ~scan.dirty
                /\ build' = [build EXCEPT !.pc = "backfilled", !.final_paths = results,
                                          !.requery = TRUE, !.dirty = TRUE,
                                          !.scanned = scanned_results,
                                          !.view = save_images_to_db(index, scanned_results)]
                /\ index' = VisibleToOthers(index, save_images_to_db(index, scanned_results))
    /\ scanlog' = NoScan
    /\ UNCHANGED <<allowParent, fs, durable, user_sessions, image_cache, synced,
                   sync_runs, tasks, resp, scan>>

\* save_images_to_db: conn.commit()
BuildBackfillCommit ==
    /\ build.pc = "backfilled"
    /\ index' = build.view
    /\ build' = [build EXCEPT !.pc = "committed", !.dirty = FALSE]
    /\ scanlog' = NoScan
    /\ UNCHANGED <<allowParent, fs, durable, user_sessions, image_cache, synced,
                   sync_runs, tasks, resp, scan>>

\* `if missing_paths:` the query again; then the de-duplication, the sort, the
\* direction and the rotation
BuildQuery(env) ==
    /\ build.pc = "committed"
    /\ build' = [build EXCEPT !.pc = "queried",
                     !.final_paths = IF build.requery
                                     THEN FinalPaths(index, build.req_paths, build.req, env)
                                     ELSE build.final_paths]
    /\ scanlog' = NoScan
    /\ UNCHANGED <<allowParent, fs, index, durable, user_sessions, image_cache, synced,
                   sync_runs, tasks, resp, scan>>

\* step 4 of get_playlist: the session, the durable record, the preloader run
\* and the answer
BuildInstall ==
    /\ build.pc = "queried"
    /\ user_sessions' = LruPut(user_sessions, UserSession(build.client, build.final_paths))
    /\ durable' = save_playlist_to_db(durable, build.client, build.final_paths)
    /\ tasks' = IF build.final_paths /= <<>>
                THEN Append(tasks, PreloadTask(build.final_paths, 0)) ELSE tasks
    /\ resp' = PlaylistResp(build.client, build.req, build.final_paths)
    /\ build' = BuildIdle
    /\ scanlog' = NoScan
    /\ UNCHANGED <<allowParent, fs, index, image_cache, synced, sync_runs, scan>>

-----------------------------------------------------------------------------
(* Specification of the playlist builder: one client builds playlists over a
   library of two files under ROOT_DIR and one outside it, while the flag is
   switched, files are removed and the library is rescanned *)

BuildFiles == {F_a1, F_ab2, F_ext1}

BuildPathLists ==
    { <<S_dot>>, <<S_a>>, <<S_a_us>>, <<S_pct>>, <<S_ext>>, <<S_dot, S_a>>, <<S_ext, S_a>> }

\* requests sorted by name: every path list under every orientation filter
BuildReqsByName ==
    { [NoReq EXCEPT !.paths = ps, !.sort = "name", !.orientation = o,
                    !.direction = "forward"] :
        ps \in BuildPathLists, o \in {"Both", "Landscape", "Portrait"} }

\* requests over the whole table under the other sort modes, directions and anchors
BuildReqsSorted ==
    { [NoReq EXCEPT !.paths = <<S_pct, S_dot>>, !.sort = so, !.orientation = "Both",
                    !.direction = d, !.current_path = cp] :
        so \in {"shuffle", "date", "subfolder_random", "subfolder_date"},
        d \in {"forward", "reverse"}, cp \in {S_a1} }

\* os.path.getmtime is asked for no folder
NoDirMtime == [d \in {} |-> 0]

BuildPaths == { RelPath(f) : f \in BuildFiles }

BuildDirMtime == [d \in { Dirname(p) : p \in BuildPaths } |-> IF d = S_a THEN 2 ELSE 1]

\* the database order and the shuffle draw: three orders that put each path first
BuildEnvs ==
    { [order |-> q, shuffle |-> q, dir_mtime |-> BuildDirMtime, failing |-> {}] :
        q \in { <<S_a1, S_ab2, S_ext1>>, <<S_ab2, S_ext1, S_a1>>, <<S_ext1, S_a1, S_ab2>> } }

BuildEnv0 == CHOOSE env \in BuildEnvs : TRUE

InitBuild == InitOn(BuildFiles, {F_a1, F_ab2})

NextBuild ==
    \/ \E v \in BOOLEAN : set_runtime_config(v)
    \/ RemoveFile(F_ext1)
    \/ scan_library_task({})
    \/ tasks = <<>> /\ \E req \in BuildReqsByName : get_playlist("c1", req, BuildEnv0)
    \/ tasks = <<>> /\ \E req \in BuildReqsSorted, env \in BuildEnvs : get_playlist("c1", req, env)
    \/ RunPreload

SpecBuild == InitBuild /\ [][NextBuild]_vars

-----------------------------------------------------------------------------
(* The playlist builder's claims, under SpecBuild *)

NoRepeats(list) == \A i, j \in 1..Len(list) : i /= j => list[i] /= list[j]

\* C1: the list a playlist request returns names no path twice, whatever the
\* request's paths (overlapping or not), sort mode, direction and anchor.
C1_NoDuplicatePaths == resp.op = "playlist" => NoRepeats(resp.paths)

\* C1's case: root and a subfolder of it are requested together and both of the
\* library's files under ROOT_DIR, one of them under that subfolder, are returned
C1_Witness ==
    /\ resp.op = "playlist"
    /\ resp.req.paths = <<S_dot, S_a>>
    /\ Len(resp.paths) = 2
    /\ InList(resp.paths, S_a1)

\* path lies under the requested path p, literally
LiterallyUnder(path, p) ==
    IF IsRootSel(p) THEN ~StartsWith(path, <<".", ".", "/">>)
    ELSE StartsWith(path, p \o <<"/">>)

\* C2: every path a playlist request returns is a key of the Index at the final
\* query, lies literally under one of the sanitized requested paths, and has the
\* orientation the filter demands.
C2_PathsMatchRequest ==
    [][(resp' /= resp /\ resp'.op = "playlist") =>
        \A i \in 1..Len(resp'.paths) :
            LET path == resp'.paths[i]
                req_paths == sanitize_playlist_paths(resp'.req.paths)
            IN  /\ path \in DOMAIN index'
                /\ \E k \in 1..Len(req_paths) : LiterallyUnder(path, req_paths[k])
                /\ OrientationCondition(index'[path], resp'.req.orientation)]_vars

\* C3: a playlist request handled while parent-directory access is disabled has
\* every out-of-root path coerced to '.', and returns (and stores in the session)
\* no path that resolves outside ROOT_DIR.
C3_NoOutsidePathWhileDisabled ==
    [][(resp' /= resp /\ resp'.op = "playlist" /\ ~allowParent) =>
        /\ \A p \in Range(sanitize_playlist_paths(resp'.req.paths)) : is_path_in_root_dir(p)
        /\ \A path \in Range(resp'.paths) : is_db_path_under_root(path)
        /\ resp'.req.paths /= <<>> =>
             /\ SessionOf(user_sessions', resp'.client).playlist = resp'.paths
             /\ durable'[resp'.client] = resp'.paths]_vars

-----------------------------------------------------------------------------
(* Specification of file serving: one client builds playlists and requests
   files under and outside ROOT_DIR, while the flag is switched, files are
   removed, the preloader runs, the library is rescanned and the process
   restarts *)

ServeFiles == {F_a1, F_ext1}

\* the path values of the file requests
ServePaths == {S_a1, S_ext1}

ServeEnv == [order |-> <<S_a1, S_ext1>>, shuffle |-> <<S_a1, S_ext1>>,
             dir_mtime |-> NoDirMtime, failing |-> {}]

ServeBuildReqs ==
    { [NoReq EXCEPT !.paths = ps, !.sort = "name", !.orientation = "Both",
                    !.direction = "forward"] : ps \in { <<S_dot>>, <<S_ext, S_dot>> } }

InitServe == InitOn(ServeFiles, {})

NextServe ==
    \/ \E v \in BOOLEAN : set_runtime_config(v)
    \/ \E f \in ServeFiles : RemoveFile(f)
    \/ scan_library_task({})
    \/ Restart
    \/ Len(tasks) < MaxTasks /\ \E req \in ServeBuildReqs : get_playlist("c1", req, ServeEnv)
    \/ Len(tasks) < MaxTasks /\ \E path_value \in ServePaths : serve_file_core("c1", path_value)
    \/ RunPreload

SpecServe == InitServe /\ [][NextServe]_vars

-----------------------------------------------------------------------------
(* The file-serving claims, under SpecServe *)

\* the path of a file request resolves outside ROOT_DIR
ResolvesOutside(path_value) == ~UnderRoot(AbsPath(resolve_relative_file_path(path_value)))

\* C4: a file request made while parent-directory access is disabled, for a path
\* that resolves outside ROOT_DIR, is answered 403 without the file's bytes,
\* whatever the content cache and the client's session hold. (A response stays
\* the last one only while the flag is not set again.)
C4_DisabledNeverServesOutside ==
    (resp.op = "file" /\ ~allowParent /\ ResolvesOutside(resp.arg))
        => (resp.status = 403 /\ resp.data = 0)

\* C4's case: refused although the file exists, its bytes are cached, and the
\* path is in the client's session from a playlist built while access was enabled
C4_Witness ==
    /\ resp.op = "file" /\ resp.status = 403 /\ resp.arg = S_ext1
    /\ ~allowParent
    /\ fs[F_ext1] > 0
    /\ Cached(image_cache, F_ext1)
    /\ HasSession(user_sessions, "c1")
    /\ InList(SessionOf(user_sessions, "c1").playlist, S_ext1)

\* C5: a file request for a path outside ROOT_DIR while access is disabled is
\* answered 403 whether or not the file exists; otherwise a request for a path
\* with no regular file is answered 404; and neither failure changes the session
\* store, the durable sessions, the content cache or the scheduled tasks.
C5_ServeFailures ==
    [][(resp' /= resp /\ resp'.op = "file") =>
        LET full_path == AbsPath(resolve_relative_file_path(resp'.arg))
            denied == ~allowParent /\ ResolvesOutside(resp'.arg)
        IN  /\ denied => resp'.status = 403
            /\ (~denied /\ ~IsFile(fs, full_path)) => resp'.status = 404
            /\ resp'.status \in {403, 404} =>
                   UNCHANGED <<user_sessions, durable, image_cache, tasks>>]_vars

\* C5's case: 403 for a path outside ROOT_DIR whose file does not exist, asked by
\* a client that has a session and with bytes in the cache
C5_Witness ==
    /\ resp.op = "file" /\ resp.status = 403 /\ resp.arg = S_ext1
    /\ fs[F_ext1] = 0
    /\ user_sessions /= <<>>
    /\ image_cache /= <<>>

-----------------------------------------------------------------------------
(* Specification of playlist restore: one client restores candidate lists over
   a file under ROOT_DIR and a file outside it, after building playlists and
   while files are removed, the flag is switched and the preloader runs *)

RestoreFiles == {F_a1, F_ext1}

\* the lists of at most n elements of set
ListsUpTo(set, n) == UNION { [1..k -> set] : k \in 0..n }

\* the restore requests: candidate lists, repeats included, with a cursor inside
\* or beyond the list
RestoreReqs ==
    { [NoReq EXCEPT !.paths = ps, !.current_index = ci] :
        ps \in ListsUpTo({S_a1, S_ext1}, MaxRestore), ci \in {0, MaxRestore} }

InitRestore == InitOn(RestoreFiles, {})

NextRestore ==
    \/ \E v \in BOOLEAN : set_runtime_config(v)
    \/ \E f \in RestoreFiles : RemoveFile(f)
    \/ tasks = <<>> /\ \E req \in ServeBuildReqs : get_playlist("c1", req, ServeEnv)
    \/ tasks = <<>> /\ \E req \in RestoreReqs : restore_playlist("c1", req)
    \/ RunPreload

SpecRestore == InitRestore /\ [][NextRestore]_vars

-----------------------------------------------------------------------------
(* The restore claims, under SpecRestore *)

\* the candidate names an existing regular file
CandidateExists(path) == LET full == AbsPath(path) IN full \in Files /\ fs[full] > 0

\* C6: after a successful restore, every path of the client's session, in memory
\* and durable, lies under ROOT_DIR.
C6_RestoreKeepsOnlyRootPaths ==
    [][(resp' /= resp /\ resp'.op = "restore" /\ resp'.status = 200) =>
        /\ \A path \in Range(SessionOf(user_sessions', resp'.client).playlist) :
               UnderRoot(AbsPath(path))
        /\ \A path \in Range(durable'[resp'.client]) : UnderRoot(AbsPath(path))]_vars

\* C7: a successful restore answers valid_count = the number of candidates that
\* exist as files, original_count = the length of the submitted list, and the
\* submitted list without the candidates that do not exist, order kept; that list
\* becomes the client's session in memory and its durable record.
C7_RestoreResult ==
    [][(resp' /= resp /\ resp'.op = "restore" /\ resp'.status = 200) =>
        LET submitted == resp'.req.paths
            survivors == SelectSeq(submitted, CandidateExists)
        IN  /\ resp'.valid_count =
                   Cardinality({ i \in 1..Len(submitted) : CandidateExists(submitted[i]) })
            /\ resp'.original_count = Len(submitted)
            /\ resp'.paths = survivors
            /\ SessionOf(user_sessions', resp'.client).playlist = survivors
            /\ durable'[resp'.client] = survivors]_vars

\* C7's case: one candidate exists and one was deleted, valid_count is 1
C7_Witness ==
    /\ resp.op = "restore" /\ resp.status = 200
    /\ resp.req.paths = <<S_ext1, S_a1>>
    /\ resp.valid_count = 1 /\ resp.original_count = 2
    /\ resp.paths = <<S_a1>>
    /\ fs[F_ext1] = 0

\* C8: a restore is rejected exactly when the candidate list is empty or no
\* candidate exists as a file, and a rejected restore changes nothing: not the
\* client's session, its durable record, the content cache or the scheduled tasks.
C8_RejectedRestore ==
    [][(resp' /= resp /\ resp'.op = "restore") =>
        /\ resp'.status = 400 <=>
               ~\E i \in 1..Len(resp'.req.paths) : CandidateExists(resp'.req.paths[i])
        /\ resp'.status = 400 =>
               UNCHANGED <<user_sessions, durable, image_cache, tasks, index, synced,
                           sync_runs>>]_vars

\* C8's case: a restore none of whose candidates exists is rejected while the
\* client has a session and a durable record
C8_Witness ==
    /\ resp.op = "restore" /\ resp.status = 400
    /\ resp.req.paths = <<S_a1>>
    /\ HasSession(user_sessions, "c1")
    /\ "c1" \in DOMAIN durable /\ durable["c1"] /= <<>>

-----------------------------------------------------------------------------
(* Specification of reconciliation: files under ROOT_DIR are written, touched
   and removed (a readable image, an image that cannot be opened, a file that
   is no image) while one client builds playlists and fetches files, the
   preloader runs, and scan_library_task passes over ROOT_DIR *)

ReconcileFiles == {F_a1, F_bad, F_txt}

ReconcilePaths == {S_a1, S_atxt}

ReconcileEnv == [order |-> <<S_a1>>, shuffle |-> <<S_a1>>,
                 dir_mtime |-> NoDirMtime, failing |-> {}]

ReconcileBuildReqs == { [NoReq EXCEPT !.paths = <<S_dot>>] }

InitReconcile == InitOn(ReconcileFiles, {})

NextReconcile ==
    \/ \E m \in 1..MaxMtime : WriteFile(F_a1, m)
    \/ \E f \in ReconcileFiles \ {F_a1} : WriteFile(f, 1)
    \/ \E f \in ReconcileFiles : RemoveFile(f)
    \/ scan_library_task({})
    \/ tasks = <<>>
         /\ \E req \in ReconcileBuildReqs : get_playlist("c1", req, ReconcileEnv)
    \/ tasks = <<>>
         /\ \E path_value \in ReconcilePaths : serve_file_core("c1", path_value)
    \/ RunPreload

SpecReconcile == InitReconcile /\ [][NextReconcile]_vars

-----------------------------------------------------------------------------
(* The reconciliation claims, under SpecReconcile *)

\* C9: a pass of scan_library_task that directly follows another pass, with no
\* change of the filesystem and no other operation between them, writes an empty
\* upsert batch and an empty delete list, leaves the Index as it is, and clears
\* neither the content cache nor the session store nor the durable sessions.
C9_SecondPassChangesNothing ==
    (scanlog.ran /\ scanlog.again) =>
        /\ scanlog.to_upsert = {}
        /\ scanlog.to_delete = {}
        /\ scanlog.index_same
        /\ scanlog.caches_same

\* C9's case: the second of two passes in a row, with an image in the Index, an
\* image that cannot be opened on disk (it is looked at again by every pass),
\* bytes in the cache and a session in memory and on record
C9_Witness ==
    /\ scanlog.ran /\ scanlog.again
    /\ S_a1 \in DOMAIN index
    /\ fs[F_bad] > 0
    /\ image_cache /= <<>>
    /\ HasSession(user_sessions, "c1")
    /\ "c1" \in DOMAIN durable

\* C10: once a pass of scan_library_task has completed with a file under ROOT_DIR
\* gone from disk, the Index has no record of the file's path and the content
\* cache has no bytes under the file's absolute path.
C10_DeletionPropagates ==
    \A f \in Files :
        (scanlog.ran /\ UnderRoot(f) /\ fs[f] = 0) =>
            /\ RelPath(f) \notin DOMAIN index
            /\ \A i \in 1..Len(image_cache) : NormSegs(image_cache[i].key, <<>>) /= f

\* C11: a pass of scan_library_task that removes at least one Index record ends
\* with the session store, the content cache and the durable sessions all empty;
\* a pass that removes no record, whether or not it writes some, leaves the three
\* as they were.
C11_ClearOnDeletionOnly ==
    [][scanlog'.ran =>
        IF DOMAIN index \ DOMAIN index' /= {}
        THEN user_sessions' = <<>> /\ image_cache' = <<>> /\ durable' = NoPlaylists
        ELSE UNCHANGED <<user_sessions, image_cache, durable>>]_vars

\* C11's case: a pass has just removed a record and with it emptied stores that
\* held something
C11_Witness ==
    /\ scanlog.ran /\ scanlog.to_delete /= {} /\ ~scanlog.caches_same
    /\ S_a1 \notin DOMAIN index
    /\ user_sessions = <<>> /\ image_cache = <<>> /\ durable = NoPlaylists

-----------------------------------------------------------------------------
(* Specification of the external sync: two clients build playlists that name a
   directory outside ROOT_DIR, under its own name and under a name that differs
   in case, while the file in it is touched and removed, ROOT_DIR is rescanned
   and the process restarts, with the flag on or off *)

ExternalFiles == {F_a1, F_ext1}

ExternalClients == {"c1", "c2"}

ExternalReqs ==
    { [NoReq EXCEPT !.paths = ps, !.sort = "name", !.orientation = "Both",
                    !.direction = "forward"] : ps \in { <<S_ext>>, <<S_EXT>> } }

InitExternal == InitOn(ExternalFiles, {F_a1})

NextExternal ==
    \/ \E m \in 1..MaxMtime : WriteFile(F_ext1, m)
    \/ RemoveFile(F_ext1)
    \/ scan_library_task({})
    \/ Restart
    \/ tasks = <<>>
         /\ \E c \in ExternalClients, req \in ExternalReqs : get_playlist(c, req, ServeEnv)
    \/ RunPreload

SpecExternal == InitExternal /\ [][NextExternal]_vars

-----------------------------------------------------------------------------
(* The external sync's claims, under SpecExternal *)

\* the step is a playlist build that ran sync_external_path_to_db for prefix
SyncedInStep(prefix) ==
    /\ resp'.op = "playlist"
    /\ RunsOf(sync_runs', prefix) > RunsOf(sync_runs, prefix)

\* the Index record of path is gone or altered after the step
RecordTouched(path) == path \notin DOMAIN index' \/ index'[path] /= index[path]

\* C12: a pass of scan_library_task neither removes nor alters an Index record
\* whose path lies outside ROOT_DIR, whether or not its file exists; and whatever
\* step removes such a record is a build that ran the external sync for a prefix
\* the record's path lies under.
C12_ExternalRecordsOutliveScan ==
    [][\A path \in DOMAIN index :
          ~is_db_path_under_root(path) =>
              /\ scanlog'.ran => ~RecordTouched(path)
              /\ path \notin DOMAIN index' =>
                     \E prefix \in DOMAIN sync_runs' :
                         SyncedInStep(prefix) /\ StartsWith(path, prefix \o <<"/">>)]_vars

\* the step is a playlist build whose sanitized path list names prefix as a path
\* outside ROOT_DIR
BuildNames(prefix) ==
    /\ resp' /= resp
    /\ resp'.op = "playlist"
    /\ prefix \in Range(ExternalPaths(sanitize_playlist_paths(resp'.req.paths)))

\* C13: since the process started, the external sync has run at most once for
\* any one prefix, whichever clients built playlists naming it; and a build that
\* names a prefix for which it has not run since the start runs it.
C13_SyncOncePerLifetime ==
    [][/\ \A prefix \in DOMAIN sync_runs' : sync_runs'[prefix] <= 1
       /\ \A prefix \in {S_ext, S_EXT} :
              (BuildNames(prefix) /\ RunsOf(sync_runs, prefix) = 0)
                  => RunsOf(sync_runs', prefix) = 1]_vars

\* C13's case: both clients have built a playlist under ../e since the start, the
\* second build after the file was touched, and the sync has run once: the Index
\* still has the file's earlier modification time
C13_Witness ==
    /\ HasSession(user_sessions, "c1") /\ HasSession(user_sessions, "c2")
    /\ SessionOf(user_sessions, "c1").playlist = <<S_ext1>>
    /\ SessionOf(user_sessions, "c2").playlist = <<S_ext1>>
    /\ RunsOf(sync_runs, S_ext) = 1
    /\ resp.op = "playlist" /\ resp.client = "c2" /\ resp.req.paths = <<S_ext>>
    /\ fs[F_ext1] = 2 /\ index[S_ext1].mtime = 1

\* the image files scan_directory_for_images_heavy finds under the directory a
\* prefix names, by their Index paths
FoundUnder(prefix) ==
    { RelPath(f) : f \in { g \in Files : /\ fs[g] > 0
                                         /\ HasImageExt(g) /\ ~Unreadable(fs, g)
                                         /\ StartsWith(g, AbsPath(prefix))
                                         /\ Len(g) > Len(AbsPath(prefix)) } }

\* C14: when a build has run the external sync for the one prefix it names, the
\* Index records whose path starts with prefix + "/" are exactly the image files
\* found under the prefix's directory, and every record whose path does not
\* start with prefix + "/" is as it was.
C14_SyncExactlyTheSubtree ==
    [][\A prefix \in {S_ext, S_EXT} :
          (SyncedInStep(prefix) /\ resp'.req.paths = <<prefix>>) =>
              /\ { p \in DOMAIN index' : StartsWith(p, prefix \o <<"/">>) } = FoundUnder(prefix)
              /\ \A p \in DOMAIN index \cup DOMAIN index' :
                     ~StartsWith(p, prefix \o <<"/">>) =>
                         /\ p \in DOMAIN index /\ p \in DOMAIN index'
                         /\ index'[p] = index[p]]_vars

-----------------------------------------------------------------------------
(* Specification of rotation: one client builds playlists sorted by name over
   two files under ROOT_DIR and one outside it, in both directions, with no
   anchor, with each file as the anchor and with an anchor that is no file,
   while the flag is switched *)

RotateFiles == {F_a1, F_ab2, F_ext1}

RotateEnv == [order |-> <<S_a1, S_ab2, S_ext1>>, shuffle |-> <<S_a1, S_ab2, S_ext1>>,
              dir_mtime |-> NoDirMtime, failing |-> {}]

RotateReqs ==
    { [NoReq EXCEPT !.paths = ps, !.sort = "name", !.orientation = "Both",
                    !.direction = d, !.current_path = cp] :
        ps \in { <<S_ext, S_dot>>, <<S_pct>> }, d \in {"forward", "reverse"},
        cp \in {<<>>, S_a1, S_ab2, S_ext1, S_ab} }

InitRotate == InitOn(RotateFiles, RotateFiles)

NextRotate ==
    \/ \E v \in BOOLEAN : set_runtime_config(v)
    \/ tasks = <<>> /\ \E req \in RotateReqs : get_playlist("c1", req, RotateEnv)
    \/ RunPreload

SpecRotate == InitRotate /\ [][NextRotate]_vars

-----------------------------------------------------------------------------
(* The rotation claim, under SpecRotate *)

\* the list a build of req answers when req carries no anchor, on the Index idx
Unrotated(idx, req) ==
    FinalPaths(idx, sanitize_playlist_paths(req.paths), [req EXCEPT !.current_path = <<>>],
               RotateEnv)

\* C15: a build whose anchor is allowed by the flag and stands at position i of
\* the sorted list S, taken in the requested direction, answers S from position i
\* to its end followed by S from its start to position i - 1; a build whose anchor
\* is not in S, or is outside ROOT_DIR while access is disabled, answers S.
C15_RotationAfterDirection ==
    [][(resp' /= resp /\ resp'.op = "playlist") =>
        LET S == Unrotated(index', resp'.req)
            anchor == resp'.req.current_path
            allowed == allowParent \/ UnderRoot(AbsPath(anchor))
        IN  IF anchor /= <<>> /\ allowed /\ \E i \in 1..Len(S) : S[i] = anchor
            THEN \E i \in 1..Len(S) :
                    /\ S[i] = anchor
                    /\ resp'.paths = SubSeq(S, i, Len(S)) \o SubSeq(S, 1, i - 1)
            ELSE resp'.paths = S]_vars

\* C15's case: the list ../e/1, a/1, ab/2 asked in reverse with the anchor a/1
\* comes back as a/1, ../e/1, ab/2
C15_Witness ==
    /\ resp.op = "playlist"
    /\ resp.req.direction = "reverse" /\ resp.req.current_path = S_a1
    /\ resp.paths = <<S_a1, S_ext1, S_ab2>>

-----------------------------------------------------------------------------
(* Specification of the sort by name: one client builds playlists of the whole
   library, sorted by name or by a mode the program does not know, over files
   whose names differ in a run of digits and in the case of a letter, while
   files are removed and the library is rescanned *)

SortFiles == {F_a2, F_a10, F_B1}

SortEnv == [order |-> <<S_B1, S_a10, S_a2>>, shuffle |-> <<S_B1, S_a10, S_a2>>,
            dir_mtime |-> NoDirMtime, failing |-> {}]

SortReqs ==
    { [NoReq EXCEPT !.paths = <<S_dot>>, !.sort = so, !.orientation = "Both",
                    !.direction = "forward"] : so \in {"name", "other"} }

InitSort == InitOn(SortFiles, {})

NextSort ==
    \/ \E f \in SortFiles : RemoveFile(f)
    \/ scan_library_task({})
    \/ tasks = <<>> /\ \E req \in SortReqs : get_playlist("c1", req, SortEnv)
    \/ RunPreload

SpecSort == InitSort /\ [][NextSort]_vars

-----------------------------------------------------------------------------
(* The claim on the sort by name, under SpecSort *)

\* a path with its letters in lower case
LowerCased(path) == [i \in 1..Len(path) |-> Lower(path[i])]

\* path p comes before path q in natural order without regard to case: runs of
\* digits compare as integers, letters compare as their lower-case forms
NaturalLessNoCase(p, q) == KeyLess(natsort_key(LowerCased(p)), natsort_key(LowerCased(q)))

\* C16: a playlist built forward with sort mode name, or with a mode the program
\* does not know, is in natural order without regard to case: no path of it comes
\* after a path that follows it in that order.
C16_NameSortIgnoresCase ==
    [][(resp' /= resp /\ resp'.op = "playlist") =>
        \A i, j \in 1..Len(resp'.paths) :
            i < j => ~NaturalLessNoCase(resp'.paths[j], resp'.paths[i])]_vars

-----------------------------------------------------------------------------
(* Specification of the preloader: one client restores playlists of one to five
   paths, one path twice among them, with the cursor at either end or inside,
   files of the playlist are removed, and the preloader runs *)

PreloadFiles == {F_a1, F_a2, F_a10, F_B1, F_ab2}

PreloadLists ==
    { <<S_a1>>, <<S_a1, S_a2>>, <<S_a1, S_a2, S_a1>>,
      <<S_a1, S_a2, S_a10, S_B1>>, <<S_a1, S_a2, S_a10, S_B1, S_ab2>> }

PreloadReqs ==
    { [NoReq EXCEPT !.paths = ps, !.current_index = ci] :
        ps \in PreloadLists, ci \in {0, 2, 4} }

InitPreload == InitOn(PreloadFiles, PreloadFiles)

NextPreload ==
    \/ \E f \in {F_a1, F_ab2} : RemoveFile(f)
    \/ tasks = <<>> /\ \E req \in PreloadReqs : restore_playlist("c1", req)
    \/ RunPreload

SpecPreload == InitPreload /\ [][NextPreload]_vars

-----------------------------------------------------------------------------
(* The preloader's claim, under SpecPreload *)

\* the indices, counted from 0, of the window of radius PRELOAD_WINDOW around
\* center in a list of n elements, taken around the ends
WindowIndices(n, center) ==
    { (center + o) % n : o \in (0 - PRELOAD_WINDOW)..PRELOAD_WINDOW }

\* C17: a run of the preloader on a playlist of n > 0 paths reads the playlist at
\* exactly the indices (center + o) mod n for -W <= o <= W, none outside 0..n-1,
\* calls get_image_content for those whose file exists, and leaves the cache that
\* these calls produce.
C17_PreloadWindowWraps ==
    [][(tasks /= <<>> /\ tasks' = Tail(tasks)) =>
        LET task == Head(tasks)
            n == Len(task.playlist)
            run == preload_surrounding_images(image_cache, fs, task.playlist,
                                              task.current_index)
        IN  n > 0 =>
              /\ Range(run.visited) = WindowIndices(n, task.current_index)
              /\ Range(run.visited) \subseteq 0..(n - 1)
              /\ Range(run.asked) =
                     { k \in Range(run.visited) : IsFile(fs, JoinRoot(task.playlist[k + 1])) }
              /\ image_cache' = run.cache
              /\ \A k \in Range(run.asked) :
                     \/ Cached(image_cache', JoinRoot(task.playlist[k + 1]))
                     \/ Cardinality(Range(run.asked)) > IMAGE_CACHE_MAXSIZE]_vars

\* C17's case: the preloader has run on a playlist of five paths with the cursor
\* on the last one; the first path's bytes are in the cache, the third's are not
C17_Witness ==
    /\ resp.op = "restore" /\ resp.status = 200
    /\ Len(resp.paths) = 5 /\ resp.req.current_index = 4
    /\ tasks = <<>>
    /\ Cached(image_cache, F_a1)
    /\ ~Cached(image_cache, F_a10)

-----------------------------------------------------------------------------
(* Specification of the session store: three clients, one more than the store
   holds, build playlists of the library and of a folder without images, and
   fetch a file, while the preloader runs and the process restarts *)

SessionClients == {"c1", "c2", "c3"}

SessionEnv == [order |-> <<S_a1>>, shuffle |-> <<S_a1>>,
               dir_mtime |-> NoDirMtime, failing |-> {}]

SessionReqs ==
    { [NoReq EXCEPT !.paths = ps, !.sort = "name", !.orientation = "Both",
                    !.direction = "forward"] : ps \in { <<S_dot>>, <<S_ab>> } }

\* the request without any prefix
EmptyReq == [NoReq EXCEPT !.sort = "name", !.orientation = "Both", !.direction = "forward"]

InitSession == InitOn({F_a1}, {F_a1})

NextSession ==
    \/ tasks = <<>>
         /\ \E c \in SessionClients, req \in SessionReqs : get_playlist(c, req, SessionEnv)
    \/ \E c \in SessionClients : get_playlist(c, EmptyReq, SessionEnv)
    \/ tasks = <<>> /\ \E c \in SessionClients : serve_file_core(c, S_a1)
    \/ RunPreload
    \/ Restart

SpecSession == InitSession /\ [][NextSession]_vars

-----------------------------------------------------------------------------
(* The session store's claims, under SpecSession *)

\* the step is a playlist build with a list of prefixes that is not empty
BuildStep == resp' /= resp /\ resp'.op = "playlist" /\ resp'.req.paths /= <<>>

\* after the step the client's session holds the answered list with the counter
\* at 0 and its durable record holds the list; every other client's session is
\* as it was or, if the store was full and the client is new to it, the least
\* recently used one is gone; no other durable record changes
BuildInstallsSession ==
    LET c == resp'.client
        L == resp'.paths
    IN  /\ HasSession(user_sessions', c)
        /\ SessionOf(user_sessions', c) = [client |-> c, playlist |-> L, request_count |-> 0]
        /\ c \in DOMAIN durable' /\ durable'[c] = L
        /\ \A o \in DOMAIN durable' \ {c} : o \in DOMAIN durable /\ durable'[o] = durable[o]
        /\ \A o \in SessionClients \ {c} :
              /\ HasSession(user_sessions', o) =>
                     HasSession(user_sessions, o)
                         /\ SessionOf(user_sessions', o) = SessionOf(user_sessions, o)
              /\ (HasSession(user_sessions, o) /\ ~HasSession(user_sessions', o)) =>
                     /\ Len(user_sessions) = SESSIONS_MAXSIZE
                     /\ ~HasSession(user_sessions, c)
                     /\ user_sessions[1].client = o

\* C18 as stated: every build with a non-empty list of prefixes installs the
\* answered list and schedules a preloader run at index 0 of it.
C18_BuildAlwaysSchedules ==
    [][BuildStep =>
        /\ BuildInstallsSession
        /\ tasks' = Append(tasks, PreloadTask(resp'.paths, 0))]_vars

\* C18, amended: every build with a non-empty list of prefixes installs the
\* answered list L as the client's session with the counter at 0, replacing any
\* earlier one, and as its durable record, leaves the other clients' sessions
\* alone but for the eviction of the least recently used, and schedules a
\* preloader run at index 0 of L when L is not empty, none when L is empty.
C18_BuildInstallsAndSchedules ==
    [][BuildStep =>
        /\ BuildInstallsSession
        /\ tasks' = IF resp'.paths /= <<>>
                    THEN Append(tasks, PreloadTask(resp'.paths, 0))
                    ELSE tasks]_vars

\* C18's case: a client whose session had counted a request has built an empty
\* playlist: session and durable record are the empty list, no run is scheduled,
\* and another client's session is still there
C18_Witness ==
    /\ resp.op = "playlist" /\ resp.client = "c1" /\ resp.paths = <<>>
    /\ resp.req.paths = <<S_ab>>
    /\ SessionOf(user_sessions, "c1") = [client |-> "c1", playlist |-> <<>>, request_count |-> 0]
    /\ durable["c1"] = <<>>
    /\ tasks = <<>>
    /\ HasSession(user_sessions, "c2") /\ SessionOf(user_sessions, "c2").request_count = 1
    /\ "c3" \in DOMAIN durable /\ ~HasSession(user_sessions, "c3")


\* C19: a build without any prefix answers the empty playlist with success and
\* leaves the Index, the marker of synced external prefixes, the session store,
\* the durable records and the scheduled preloader runs as they were.
C19_EmptyBuildChangesNothing ==
    [][(resp' /= resp /\ resp'.op = "playlist" /\ resp'.req.paths = <<>>) =>
        /\ resp'.status = 200 /\ resp'.paths = <<>>
        /\ UNCHANGED <<index, synced, sync_runs, user_sessions, durable, tasks>>]_vars

\* C19's case: a client whose session holds a file and has counted a request
\* asked for a build without prefixes while a preloader run was scheduled
C19_Witness ==
    /\ resp.op = "playlist" /\ resp.client = "c1" /\ resp.req.paths = <<>>
    /\ resp.paths = <<>>
    /\ HasSession(user_sessions, "c1")
    /\ SessionOf(user_sessions, "c1") =
           [client |-> "c1", playlist |-> <<S_a1>>, request_count |-> 0]
    /\ durable["c1"] = <<S_a1>>
    /\ tasks = <<PreloadTask(<<S_a1>>, 0)>>


\* the step is a successful file request of a client that has a durable record
\* and no session in memory
RehydratingServe ==
    /\ resp' /= resp /\ resp'.op = "file" /\ resp'.status = 200
    /\ resp'.client \in DOMAIN durable
    /\ ~HasSession(user_sessions, resp'.client)

\* C20: a successful file request of a client with a durable record and no
\* session in memory leaves the client with a session whose list is the durable
\* record, and schedules a preloader run at the index of the requested path
\* when the list holds that path.
C20_ServeRehydratesSession ==
    [][RehydratingServe =>
        LET c == resp'.client
            rel_path == resolve_relative_file_path(resp'.arg)
        IN  /\ HasSession(user_sessions', c)
            /\ SessionOf(user_sessions', c).playlist = durable[c]
            /\ InList(durable[c], rel_path) =>
                   \E i \in (Len(tasks) + 1)..Len(tasks') :
                       tasks'[i] = PreloadTask(durable[c], IndexOf(durable[c], rel_path) - 1)
       ]_vars

-----------------------------------------------------------------------------
(* Specification of the session status: two clients build playlists of the
   library and of a folder without images and ask for their session status,
   while the preloader runs and the process restarts *)

StatusClients == {"c1", "c2"}

InitStatus == InitOn({F_a1}, {F_a1})

NextStatus ==
    \/ tasks = <<>>
         /\ \E c \in StatusClients, req \in SessionReqs : get_playlist(c, req, SessionEnv)
    \/ \E c \in StatusClients : get_session_status(c)
    \/ RunPreload
    \/ Restart

SpecStatus == InitStatus /\ [][NextStatus]_vars

-----------------------------------------------------------------------------
(* The session status claim, under SpecStatus *)

\* the step is a session status request
StatusStep == resp' /= resp /\ resp'.op = "status"

\* the sessions in memory and the durable records are the same before and after
SameSessions ==
    /\ durable' = durable
    /\ \A c \in StatusClients :
          /\ HasSession(user_sessions', c) = HasSession(user_sessions, c)
          /\ HasSession(user_sessions, c) =>
                 SessionOf(user_sessions', c) = SessionOf(user_sessions, c)

\* C21: the session status reports the session in memory with its length when
\* the client has one, else the durable record with its length when the client
\* has one, else no session, an empty list included, and it creates, replaces
\* or deletes no session.
C21_StatusReportsSession ==
    [][StatusStep =>
        LET c == resp'.client
        IN  /\ resp'.status = 200
            /\ IF HasSession(user_sessions, c)
               THEN /\ resp'.has_session /\ resp'.source = "memory"
                    /\ resp'.playlist_size = Len(SessionOf(user_sessions, c).playlist)
               ELSE IF c \in DOMAIN durable
               THEN /\ resp'.has_session /\ resp'.source = "database"
                    /\ resp'.playlist_size = Len(durable[c])
               ELSE ~resp'.has_session
            /\ SameSessions]_vars

-----------------------------------------------------------------------------
(* Specification of the reconciliation's result: images are written, rewritten
   and removed, one of them unreadable from the start and one unreadable after
   its last rewrite, and the library is scanned *)

ScanFiles == {F_a1, F_ac, F_bad}

InitScan == InitOn(ScanFiles, {})

NextScan ==
    \/ \E f \in {F_a1, F_ac}, m \in 1..MaxMtime : WriteFile(f, m)
    \/ WriteFile(F_bad, 1)
    \/ \E f \in ScanFiles : RemoveFile(f)
    \/ scan_library_task({})

SpecScan == InitScan /\ [][NextScan]_vars

-----------------------------------------------------------------------------
(* The reconciliation's postcondition, under SpecScan *)

\* the image files the walk of ROOT_DIR finds, by their Index paths
Walked == { RelPath(f) : f \in iter_image_files_safe(fs, ROOT_DIR, {}) }

\* those of them whose metadata this pass can extract
ReadableNow == { RelPath(f) : f \in { g \in iter_image_files_safe(fs, ROOT_DIR, {}) :
                                        ~Unreadable(fs, g) } }

\* the records of the Index idx whose path resolves inside ROOT_DIR
InRoot(idx) == { p \in DOMAIN idx : is_db_path_under_root(p) }

\* after a pass the records inside ROOT_DIR are the files the walk found whose
\* metadata was extracted now or had been before, and the pass upserts every
\* changed file it can read
ScanKeepsTheExtracted ==
    /\ InRoot(index') = { p \in Walked : p \in ReadableNow \/ p \in DOMAIN index }
    /\ scanlog'.to_upsert =
           { p \in ReadableNow : p \notin DOMAIN index \/ index[p].mtime /= fs[AbsPath(p)] }

\* C22 as stated: after a pass the records inside ROOT_DIR are exactly the files
\* the walk found whose metadata could be extracted now or earlier, each with
\* the file's current modification time, and a file that cannot be read keeps
\* no other changed file out of the batch.
C22_ScanRecordsCurrentMtime ==
    [][scanlog'.ran =>
        /\ ScanKeepsTheExtracted
        /\ \A p \in InRoot(index') : index'[p].mtime = fs[AbsPath(p)]]_vars

\* C22, amended: after a pass the records inside ROOT_DIR are exactly the files
\* the walk found whose metadata could be extracted now or earlier; a record
\* carries the file's current modification time when this pass can read the
\* file, and is the record of the earlier extraction when it cannot; a file
\* that cannot be read keeps no other changed file out of the batch.
C22_ScanRecordsExtractedMtime ==
    [][scanlog'.ran =>
        /\ ScanKeepsTheExtracted
        /\ \A p \in InRoot(index') :
              IF p \in ReadableNow THEN index'[p].mtime = fs[AbsPath(p)]
              ELSE index'[p] = index[p]]_vars

\* C22's case: a pass found a/c rewritten and unreadable and a/1 changed: it
\* upserted a/1 alone and the record of a/c is still the one of its first content
C22_Witness ==
    /\ scanlog.ran /\ scanlog.to_upsert = {S_a1} /\ scanlog.to_delete = {}
    /\ fs[F_ac] = MaxMtime /\ fs[F_bad] > 0
    /\ S_ac \in DOMAIN index /\ index[S_ac].mtime = 1
    /\ index[S_a1].mtime = fs[F_a1]
    /\ S_atxt \notin DOMAIN index

-----------------------------------------------------------------------------
(* Specification of the Index under concurrent connections: a background pass
   of scan_library_task runs beside the playlist builds of one client, each of
   a directory outside ROOT_DIR, which it syncs, and a hidden one, which it
   backfills, while
   files are rewritten and removed between the requests; the process has run
   before and has synced the outside directory then *)

IsoFiles == {F_a1, F_h1, F_ext1, F_ext2}

IsoEnv == [order |-> <<S_a1, S_h1, S_ext1, S_ext2>>,
           shuffle |-> <<S_a1, S_h1, S_ext1, S_ext2>>,
           dir_mtime |-> NoDirMtime, failing |-> {}]

IsoReqs ==
    { [NoReq EXCEPT !.paths = ps, !.sort = "shuffle", !.orientation = "Both",
                    !.direction = "forward"] : ps \in { <<S_ext, S_h>> } }

\* the state once lifespan has run on the database of an earlier run that had
\* synced the outside directory: every file exists
InitIso ==
    /\ allowParent = TRUE
    /\ fs = [f \in Files |-> IF f \in IsoFiles THEN 1 ELSE 0]
    /\ index = ScanPass(sync_external_path_to_db(EmptyIndex, fs, S_ext, {}), fs, {}).index
    /\ durable = NoPlaylists
    /\ user_sessions = <<>>
    /\ image_cache = <<>>
    /\ synced = {}
    /\ sync_runs = NoRuns
    /\ tasks = <<>>
    /\ resp = NoResp
    /\ scanlog = NoScan
    /\ scan = ScanIdle /\ build = BuildIdle

\* no thread is at work on the database
Quiet == scan.pc \in {"idle", "failed"} /\ build.pc = "idle" /\ tasks = <<>>

\* the steps of the worker thread that runs scan_library_task
ScanThread ==
    \/ ScanStart({})
    \/ ScanUpsert
    \/ ScanDelete
    \/ ScanCommit
    \/ ScanClearSessions
    \/ ScanClearCache
    \/ ScanClearDurable

\* the steps of a get_playlist request under the environment env
BuildSteps(env) ==
    \/ BuildSyncSkip
    \/ BuildSyncUpsert(env)
    \/ BuildSyncDelete
    \/ BuildSyncCommit
    \/ BuildBackfill(env)
    \/ BuildBackfillCommit
    \/ BuildQuery(env)
    \/ BuildInstall

NextIso ==
    \/ Quiet /\ \E f \in {F_a1, F_ext1} : fs[f] < MaxMtime /\ WriteFile(f, fs[f] + 1)
    \/ Quiet /\ RemoveFile(F_ext2)
    \/ ScanThread
    \/ tasks = <<>> /\ \E req \in IsoReqs : BuildStart("c1", req)
    \/ BuildSteps(IsoEnv)
    \/ RunPreload

SpecIso == InitIso /\ [][NextIso]_vars

-----------------------------------------------------------------------------
(* The claim about readers, under SpecIso *)

\* the pass commits its batch: every upsert and every delete of it
ScanBatchCommitted ==
    /\ scan.pc = "deleted" /\ scan'.pc \in {"committed", "idle"}
    /\ index' = DeleteRows(save_images_to_db(index, scan.to_upsert), scan.to_delete)

\* the sync of an external path commits its batch: the upsert of every file
\* found and the delete of every stale row under the prefix
SyncBatchCommitted ==
    /\ build.pc = "sync_deleted" /\ build'.pc = "sync"
    /\ LET upserted == save_images_to_db(index, build.scanned)
       IN  index' = DeleteRows(upserted, StaleUnder(upserted, Head(build.ext), build.scanned))

\* the backfill commits its batch: the upsert of every record scanned
BackfillBatchCommitted ==
    /\ build.pc = "backfilled" /\ build'.pc = "committed"
    /\ index' = save_images_to_db(index, build.scanned)

\* C23: the Index that a query reads changes only by the whole batch of one
\* writer: every upsert and delete of a pass, every upsert and stale-row delete
\* of an external sync, or every upsert of a backfill; no step shows a reader a
\* part of a batch.
C23_ReadersSeeWholeBatches ==
    [][index' /= index =>
          \/ ScanBatchCommitted
          \/ SyncBatchCommitted
          \/ BackfillBatchCommitted]_vars

\* C23's case: a build is about to query while the pass has written the upsert
\* of a/1 and the delete of .h/1 and not committed them: the Index the query
\* reads still has the rows from before the batch
C23_Witness ==
    /\ scan.pc = "deleted" /\ scan.dirty
    /\ scan.to_upsert /= {} /\ scan.to_delete = {S_h1}
    /\ scan.view[S_a1].mtime = MaxMtime /\ S_h1 \notin DOMAIN scan.view
    /\ index[S_a1].mtime = 1 /\ S_h1 \in DOMAIN index
    /\ build.pc = "committed" /\ build.requery

-----------------------------------------------------------------------------
(* Specification of a pass that overlaps the requests: a file of the library is
   removed, a background pass of scan_library_task runs, and one client builds
   the playlist of the library and fetches a file *)

OverlapFiles == {F_a1, F_a2}

OverlapEnv == [order |-> <<S_a1, S_a2>>, shuffle |-> <<S_a1, S_a2>>,
               dir_mtime |-> NoDirMtime, failing |-> {}]

OverlapReq == [NoReq EXCEPT !.paths = <<S_dot>>, !.sort = "shuffle", !.orientation = "Both",
                            !.direction = "forward"]

InitOverlap == InitOn(OverlapFiles, OverlapFiles)

NextOverlap ==
    \/ RemoveFile(F_a2)
    \/ ScanThread
    \/ tasks = <<>> /\ BuildStart("c1", OverlapReq)
    \/ BuildBackfill(OverlapEnv)
    \/ BuildQuery(OverlapEnv)
    \/ BuildInstall
    \/ build.pc = "idle" /\ tasks = <<>> /\ serve_file_core("c1", S_a1)
    \/ RunPreload

SpecOverlap == InitOverlap /\ [][NextOverlap]_vars

-----------------------------------------------------------------------------
(* The claim about overlapping passes, under SpecOverlap *)

\* every path of the list has a record in the Index
AllIndexed(playlist) == \A i \in 1..Len(playlist) : playlist[i] \in DOMAIN index

\* C24: once no pass and no build is in progress, no session in memory and no
\* durable record lists a path that a pass has deleted from the Index: every
\* path they list has a record.
C24_NoSessionOutlivesDeletion ==
    (scan.pc = "idle" /\ build.pc = "idle") =>
        /\ \A i \in 1..Len(user_sessions) : AllIndexed(user_sessions[i].playlist)
        /\ \A c \in DOMAIN durable : AllIndexed(durable[c])

-----------------------------------------------------------------------------
(* Specification of a pass that fails: files of the library are rewritten and
   removed, a background pass of scan_library_task runs and may fail at any
   statement up to its commit, and between the passes one client builds the
   playlist of the library and fetches a file *)

FailFiles == {F_a1, F_a2}

InitFail == InitOn(FailFiles, FailFiles)

NextFail ==
    \/ \E m \in 1..MaxMtime : WriteFile(F_a1, m)
    \/ RemoveFile(F_a2)
    \/ ScanThread
    \/ ScanFail
    \/ Quiet /\ get_playlist("c1", OverlapReq, OverlapEnv)
    \/ Quiet /\ serve_file_core("c1", S_a1)
    \/ RunPreload

SpecFail == InitFail /\ [][NextFail]_vars

-----------------------------------------------------------------------------
(* The claim about failed passes, under SpecFail *)

\* C25: a pass that fails before its commit leaves the Index as it was when the
\* pass read it, with none of its upserts or deletes, and clears neither the
\* sessions nor the image cache nor the durable records; the next pass computes
\* its batch from that Index.
C25_FailedPassChangesNothing ==
    [][/\ (scan'.pc = "failed" /\ scan.pc /= "failed") =>
              /\ index' = scan.before
              /\ UNCHANGED <<user_sessions, image_cache, durable>>
       /\ (scan.pc = "failed" /\ scan'.pc = "diffed") =>
              /\ scan'.to_upsert = ScanBatch(scan.before, fs, {}).to_upsert
              /\ scan'.to_delete = ScanBatch(scan.before, fs, {}).to_delete]_vars

\* C25's case: a pass that was to upsert a/1 and delete a/2 has failed: the
\* Index still has both rows as before, and the session, its durable record and
\* the cached image are still there
C25_Witness ==
    /\ scan.pc = "failed" /\ scan.to_upsert /= {} /\ scan.to_delete = {S_a2}
    /\ index = scan.before
    /\ index[S_a1].mtime /= fs[F_a1] /\ S_a2 \in DOMAIN index /\ fs[F_a2] = 0
    /\ HasSession(user_sessions, "c1")
    /\ SessionOf(user_sessions, "c1").playlist = <<S_a1, S_a2>>
    /\ durable["c1"] = <<S_a1, S_a2>>
    /\ image_cache /= <<>>

-----------------------------------------------------------------------------
(* The claims about the request counter and the runs one file request
   schedules, under SpecServe *)

\* the step is a successful file request
ServeHit == resp' /= resp /\ resp'.op = "file" /\ resp'.status = 200

\* the request counter of client c before a request: a session that the request
\* rehydrates starts at 0
CountBefore(c) ==
    IF HasSession(user_sessions, c) THEN SessionOf(user_sessions, c).request_count ELSE 0

\* the list of client c's session as the request finds or rehydrates it
ListAfter(c) == SessionOf(user_sessions', c).playlist

\* C26: a successful file request of a client with a session adds one to the
\* session's request counter or resets it to 1; it resets the counter only when
\* it schedules a preloader run, every run it schedules is centered on the index
\* of the requested path in the session's list, and a request whose path is not
\* in the list schedules no run and adds one to the counter.
C26_CounterResetsOnlyWithPreload ==
    [][(ServeHit /\ HasSession(user_sessions', resp'.client)) =>
        LET c == resp'.client
            rel_path == resolve_relative_file_path(resp'.arg)
            after == SessionOf(user_sessions', c).request_count
            scheduled == Len(tasks') > Len(tasks)
        IN  /\ after = CountBefore(c) + 1 \/ after = 1
            /\ after /= CountBefore(c) + 1 => scheduled
            /\ \A i \in (Len(tasks) + 1)..Len(tasks') :
                   /\ InList(ListAfter(c), rel_path)
                   /\ tasks'[i] = PreloadTask(ListAfter(c), IndexOf(ListAfter(c), rel_path) - 1)
            /\ ~InList(ListAfter(c), rel_path) =>
                   ~scheduled /\ after = CountBefore(c) + 1
       ]_vars


\* C29: one file request schedules at most one preloader run, the request that
\* rehydrates the client's session from its durable record included.
C29_ServeSchedulesAtMostOneRun ==
    [][(resp' /= resp /\ resp'.op = "file") => Len(tasks') <= Len(tasks) + 1]_vars

-----------------------------------------------------------------------------
(* Specification of single preloader runs: a call of preload_surrounding_images
   waits with any playlist of up to three paths, the empty one among them, and
   any center from below the first index to above the last, while files of the
   playlist are missing or cannot be read; the client restores playlists and
   fetches files, files are rewritten and removed, and the preloader runs *)

RunFiles == {F_a1, F_a2, F_ac}

RunLists == { <<>>, <<S_ac>>, <<S_a1, S_ac>>, <<S_a1, S_ac, S_a2>> }

\* the centers of the calls
RunCenters == (0 - 2 - PRELOAD_WINDOW)..(3 + PRELOAD_WINDOW)

RunReqs ==
    { [NoReq EXCEPT !.paths = ps, !.current_index = ci] :
        ps \in RunLists \ {<<>>}, ci \in {0, 2} }

\* the library was scanned when its three files were there and readable; since
\* then each may have been removed, and a/c rewritten into a file that cannot be
\* read
InitRun ==
    /\ allowParent = FALSE
    /\ fs \in { g \in [Files -> 0..MaxMtime] :
                  /\ \A f \in Files \ RunFiles : g[f] = 0
                  /\ g[F_a1] <= 1 /\ g[F_a2] <= 1 /\ g[F_ac] \in {0, 1, MaxMtime} }
    /\ index = ScanPass(EmptyIndex, [f \in Files |-> IF f \in RunFiles THEN 1 ELSE 0], {}).index
    /\ durable = NoPlaylists
    /\ user_sessions = <<>>
    /\ image_cache = <<>>
    /\ synced = {}
    /\ sync_runs = NoRuns
    /\ tasks \in { <<PreloadTask(playlist, current_index)>> :
                     playlist \in RunLists, current_index \in RunCenters }
    /\ resp = NoResp
    /\ scanlog = NoScan
    /\ scan = ScanIdle /\ build = BuildIdle

NextRun ==
    \/ \E f \in RunFiles : RemoveFile(f)
    \/ \E m \in {1, MaxMtime} : WriteFile(F_ac, m)
    \/ tasks = <<>> /\ \E req \in RunReqs : restore_playlist("c1", req)
    \/ tasks = <<>> /\ \E path_value \in {S_a1, S_ac} : serve_file_core("c1", path_value)
    \/ RunPreload

SpecRun == InitRun /\ [][NextRun]_vars

-----------------------------------------------------------------------------
(* The claim about single preloader runs, under SpecRun *)

\* the file of a playlist path exists and can be read
Loads(fsys, path) == IsFile(fsys, JoinRoot(path)) /\ ~OpenFails(fsys, AbsPath(path))

\* C28: every run of the preloader completes without raising, whatever the
\* playlist (the empty one included), the center (below 0 and beyond the end
\* included) and the files that are missing or cannot be read: it visits 2W+1
\* indices of a non-empty playlist and none of the empty one, leaves out of the
\* cache the files that are missing or fail to read, goes on past them to the
\* end of its window, and does not touch the response of the request before it.
C28_PreloadRunCompletes ==
    [][(tasks /= <<>> /\ tasks' = Tail(tasks)) =>
        LET task == Head(tasks)
            n == Len(task.playlist)
            run == preload_surrounding_images(image_cache, fs, task.playlist,
                                              task.current_index)
        IN  /\ ~run.raised
            /\ Len(run.visited) = IF n = 0 THEN 0 ELSE 2 * PRELOAD_WINDOW + 1
            /\ image_cache' = run.cache
            /\ resp' = resp
            /\ \A k \in 1..n :
                   (~Loads(fs, task.playlist[k]) /\ ~Cached(image_cache, JoinRoot(task.playlist[k])))
                       => ~Cached(image_cache', JoinRoot(task.playlist[k]))
            /\ n > 0 =>
                   LET last == task.playlist[run.visited[Len(run.visited)] + 1]
                   IN  Loads(fs, last) => Cached(image_cache', JoinRoot(last))
       ]_vars

\* C28's case: no request has been made, so the cache holds what the waiting
\* call left: with a/1 missing and a/c failing to read, a/2 is in the cache and
\* neither of the others is
C28_Witness ==
    /\ tasks = <<>> /\ resp.op = "none"
    /\ fs[F_a1] = 0 /\ fs[F_ac] = MaxMtime /\ fs[F_a2] = 1
    /\ Cached(image_cache, JoinRoot(S_a2))
    /\ ~Cached(image_cache, JoinRoot(S_a1)) /\ ~Cached(image_cache, JoinRoot(S_ac))

-----------------------------------------------------------------------------
(* Specification of lazy population: files appear in the library and are removed
   after the last pass of scan_library_task, one of them in a hidden directory
   of folder a and one that PIL cannot open, and one client builds playlists of
   the folders a and ab, of a written ./a, and of a folder that does not exist,
   with and without the landscape filter *)

LazyFiles == {F_a1, F_ab2, F_ah1, F_bad}

LazyPathLists == { <<S_a>>, <<S_ab>>, <<S_dot_a>>, <<S_e>> }

LazyReqs ==
    { [NoReq EXCEPT !.paths = ps, !.sort = "shuffle", !.orientation = o,
                    !.direction = "forward"] :
        ps \in LazyPathLists, o \in {"Both", "Landscape"} }

LazyEnv == [order |-> <<S_a1, S_ab2, S_ah1>>, shuffle |-> <<S_a1, S_ab2, S_ah1>>,
            dir_mtime |-> NoDirMtime, failing |-> {}]

InitLazy == InitOn(LazyFiles, {})

NextLazy ==
    \/ \E f \in LazyFiles : WriteFile(f, 1)
    \/ \E f \in LazyFiles : RemoveFile(f)
    \/ scan_library_task({})
    \/ tasks = <<>> /\ \E req \in LazyReqs : get_playlist("c1", req, LazyEnv)
    \/ RunPreload

SpecLazy == InitLazy /\ [][NextLazy]_vars

-----------------------------------------------------------------------------
(* The claim about lazy population, under SpecLazy *)

\* no row of the Index matches the playlist query for the prefix p, which is
\* under ROOT_DIR and not the root
ZeroMatches(p) ==
    /\ ~IsRootSel(p) /\ is_path_in_root_dir(p)
    /\ ~\E path \in DOMAIN index : Like(path, p \o <<"/", "%">>, "")

\* the images on disk under the prefix p that can be read
ReadableUnder(p) ==
    { f \in Files : /\ fs[f] > 0 /\ HasImageExt(f) /\ ~Unreadable(fs, f)
                    /\ Len(f) > Len(AbsPath(p)) /\ StartsWith(f, AbsPath(p)) }

\* the image passes the orientation filter o
PassesFilter(f, o) == o = "Both" \/ (o = "Landscape") = Metadata(fs, f).is_landscape

\* C27: a playlist build answers without error, and for every requested prefix
\* under ROOT_DIR that no Index row matches it leaves in the Index a record of
\* every readable image on disk under the prefix and returns each of them that
\* passes the orientation filter; when every requested prefix has a match the
\* build scans nothing and leaves the Index as it was.
C27_LazyScanReturnsAllUnderPrefix ==
    [][(resp' /= resp /\ resp'.op = "playlist") =>
        LET req_paths == sanitize_playlist_paths(resp'.req.paths)
        IN  /\ resp'.status = 200
            /\ \A p \in Range(req_paths) : ZeroMatches(p) =>
                   \A f \in ReadableUnder(p) :
                       /\ RelPath(f) \in DOMAIN index'
                       /\ PassesFilter(f, resp'.req.orientation) => InList(resp'.paths, RelPath(f))
            /\ (\A p \in Range(req_paths) : ~ZeroMatches(p)) => index' = index
       ]_vars

-----------------------------------------------------------------------------
(* Specification of passes over directories the walk leaves out: the library
   has a file in folder a and one in the hidden directory .h; one client builds
   playlists of .h, which indexes its file, and of the library; files are
   written and removed, and scan_library_task runs with every directory listed
   or with the listing of folder a raising *)

HiddenFiles == {F_a1, F_h1}

HiddenEnv == [order |-> <<S_a1, S_h1>>, shuffle |-> <<S_a1, S_h1>>,
              dir_mtime |-> NoDirMtime, failing |-> {}]

HiddenReqs ==
    { [NoReq EXCEPT !.paths = ps, !.sort = "shuffle", !.orientation = "Both",
                    !.direction = "forward"] : ps \in { <<S_h>>, <<S_dot>> } }

\* the sets of directories whose listing raises during a pass
HiddenFailing == { {}, {ROOT_DIR \o <<S_a>>} }

InitHidden == InitOn(HiddenFiles, {})

NextHidden ==
    \/ \E f \in HiddenFiles : WriteFile(f, 1)
    \/ \E f \in HiddenFiles : RemoveFile(f)
    \/ \E failing \in HiddenFailing : scan_library_task(failing)
    \/ tasks = <<>> /\ \E req \in HiddenReqs : get_playlist("c1", req, HiddenEnv)
    \/ RunPreload

SpecHidden == InitHidden /\ [][NextHidden]_vars

-----------------------------------------------------------------------------
(* The claim about records of files the walk leaves out, under SpecHidden *)

\* C30: a pass of scan_library_task removes the Index record of no file that is
\* still on disk under ROOT_DIR, be it in a hidden directory or in a directory
\* whose listing raised during the pass, and it clears the sessions, the cache
\* and the durable records only when the file of some record is really gone.
C30_ScanDeletesOnlyGoneFiles ==
    [][scanlog'.ran =>
        /\ \A path \in DOMAIN index \ DOMAIN index' : ~IsFile(fs, JoinRoot(path))
        /\ ~scanlog'.caches_same =>
               \E path \in DOMAIN index :
                   is_db_path_under_root(path) /\ ~IsFile(fs, JoinRoot(path))
       ]_vars

-----------------------------------------------------------------------------
(* Specification of rewritten files: the file a/1 is rewritten in place, each
   time with a later modification time, the file a/2 may be removed, and
   scan_library_task runs, while one client builds the playlist of the library
   and fetches a/1, and the preloader runs *)

StaleFiles == {F_a1, F_a2}

InitStale == InitOn(StaleFiles, StaleFiles)

NextStale ==
    \/ fs[F_a1] < MaxMtime /\ WriteFile(F_a1, fs[F_a1] + 1)
    \/ RemoveFile(F_a2)
    \/ scan_library_task({})
    \/ tasks = <<>> /\ get_playlist("c1", OverlapReq, OverlapEnv)
    \/ tasks = <<>> /\ serve_file_core("c1", S_a1)
    \/ RunPreload

SpecStale == InitStale /\ [][NextStale]_vars

-----------------------------------------------------------------------------
(* The claim about served bytes, under SpecStale *)

\* C31: when the Index record of a file carries the file's current modification
\* time, that is, once a pass of scan_library_task has re-indexed the file after
\* its last rewrite, a successful file request for its path returns the file's
\* current bytes, whether or not that pass deleted a record.
C31_ServedBytesAreCurrent ==
    [][(resp' /= resp /\ resp'.op = "file" /\ resp'.status = 200) =>
        LET rel_path == resolve_relative_file_path(resp'.arg)
            full_path == AbsPath(rel_path)
        IN  (rel_path \in DOMAIN index /\ index[rel_path].mtime = fs[full_path])
                => resp'.data = fs[full_path]
       ]_vars

-----------------------------------------------------------------------------
(* Specification of the two session stores: three clients, one more than the
   session store holds, install playlists, c1 and c3 by a build and c2 by a
   restore, and c1 fetches a file and asks for its session status, while a file
   of the library is removed and scan_library_task runs; each operation runs to
   its end *)

TwinClients == {"c1", "c2", "c3"}

TwinFiles == {F_a1, F_a2}

TwinRestoreReq == [NoReq EXCEPT !.paths = <<S_a2, S_a1>>]

InitTwin == InitOn(TwinFiles, TwinFiles)

NextTwin ==
    \/ RemoveFile(F_a2)
    \/ scan_library_task({})
    \/ tasks = <<>> /\ \E c \in {"c1", "c3"} : get_playlist(c, OverlapReq, OverlapEnv)
    \/ get_playlist("c1", EmptyReq, OverlapEnv)
    \/ tasks = <<>> /\ restore_playlist("c2", TwinRestoreReq)
    \/ tasks = <<>> /\ serve_file_core("c1", S_a1)
    \/ get_session_status("c1")
    \/ RunPreload

SpecTwin == InitTwin /\ [][NextTwin]_vars

-----------------------------------------------------------------------------
(* The claim about the two session stores, under SpecTwin *)

\* every session in memory has a durable record with the same list
SessionsHaveTwins ==
    \A i \in 1..Len(user_sessions) :
        /\ user_sessions[i].client \in DOMAIN durable
        /\ durable[user_sessions[i].client] = user_sessions[i].playlist

\* C32: after any sequence of playlist builds, restores, file requests, status
\* requests and passes of scan_library_task, every client with a session in
\* memory has a durable record whose list is the session's list; and a client
\* whose session leaves memory without a pass of scan_library_task, that is, by
\* eviction, keeps its durable record as it was.
C32_MemoryMatchesDurable ==
    /\ []SessionsHaveTwins
    /\ [][\A c \in TwinClients :
            (HasSession(user_sessions, c) /\ ~HasSession(user_sessions', c) /\ ~scanlog'.ran)
                => (c \in DOMAIN durable' /\ durable'[c] = durable[c])]_vars

\* C32's case: three clients have installed playlists, two by a build and one by
\* a restore of another list; the session of c1 was evicted and its durable
\* record is still there, and the sessions of c2 and c3 equal their records
C32_Witness ==
    /\ ~HasSession(user_sessions, "c1") /\ "c1" \in DOMAIN durable
    /\ durable["c1"] = <<S_a1, S_a2>>
    /\ HasSession(user_sessions, "c2") /\ HasSession(user_sessions, "c3")
    /\ SessionOf(user_sessions, "c2").playlist = <<S_a2, S_a1>>
    /\ durable["c2"] = <<S_a2, S_a1>>
    /\ SessionOf(user_sessions, "c3").playlist = <<S_a1, S_a2>>
    /\ durable["c3"] = <<S_a1, S_a2>>

====
